---------------------------- MODULE Spec2Model ----------------------------
(***************************************************************************)
(* Model of the StrelokAI ballistic core: src/ballistics/atmosphere.py     *)
(* and src/ballistics/solver.py; and of the accounts of src/auth.py.       *)
(*                                                                         *)
(* Numbers.  The program computes with IEEE doubles; the model computes    *)
(* with scaled integers that stay inside TLC's 32-bit range:               *)
(*   lengths            micrometres            (1 m      = 10^6)           *)
(*   velocities         micrometres / second   (1 m/s    = 10^6)           *)
(*   accelerations      micrometres / second^2                             *)
(*   time               ticks of dt = 0.0001 s (1 s      = 10^4)           *)
(*   angles, sin, cos, Cd, Mach and every other pure number                *)
(*                      units of 10^-8         (1.0      = 10^8)           *)
(*   density ratio      units of 10^-9         (1.0      = 10^9)           *)
(* Every product and quotient is rounded to the unit of its result, as a   *)
(* double rounds to its last bit; results agree with the program to about  *)
(* six significant digits.                                                  *)
(***************************************************************************)
EXTENDS Integers, Sequences, FiniteSets, TLC

\* ------------------------------------------------------------------------
\* Fixed-point arithmetic
\* ------------------------------------------------------------------------
E4 == 10 ^ 4
E8 == 10 ^ 8
E9 == 10 ^ 9
Micro == 10 ^ 6

Abs(a) == IF a < 0 THEN -a ELSE a
Sgn(a) == IF a < 0 THEN -1 ELSE IF a > 0 THEN 1 ELSE 0
Max2(a, b) == IF a >= b THEN a ELSE b
Min2(a, b) == IF a <= b THEN a ELSE b

\* round(a / n) for n > 0, halves rounded up
RoundDiv(a, n) == (a + n \div 2) \div n

\* round(a * b / 10^8) for 0 <= a, b < 2^31, by limbs of four decimal digits
MulE8Abs(a, b) ==
    LET a2 == a \div E8
        a1 == (a \div E4) % E4
        a0 == a % E4
        b2 == b \div E8
        b1 == (b \div E4) % E4
        b0 == b % E4
        low == ((a1 * b0 + a0 * b1) + (a0 * b0 + E4 * (E4 \div 2)) \div E4) \div E4
    IN  a2 * b2 * E8 + (a2 * b1 + a1 * b2) * E4 + (a2 * b0 + a1 * b1 + a0 * b2) + low

\* the product of a quantity and a pure number held in units of 10^-8
MulE8(a, b) == Sgn(a) * Sgn(b) * MulE8Abs(Abs(a), Abs(b))

\* <<floor(a * b / c), (a * b) mod c>> for 0 <= a, b and 0 < c < 2^31:
\* binary long multiplication, every intermediate value below c.
\* MulDivBit takes h = <<quotient, remainder>> of a * n / c to that of
\* a * (2 n + odd) / c; MulDivRem takes the bits of b four at a time.
MulDivBit(h, odd, a, c) ==
    LET dbl == IF h[2] >= c - h[2] THEN 1 ELSE 0
        r2 == IF dbl = 1 THEN h[2] - (c - h[2]) ELSE h[2] + h[2]
        ar == a % c
        add == IF odd = 1 /\ r2 >= c - ar THEN 1 ELSE 0
        r3 == IF odd = 0 THEN r2 ELSE IF add = 1 THEN r2 - (c - ar) ELSE r2 + ar
    IN  <<2 * h[1] + dbl + add + odd * (a \div c), r3>>
RECURSIVE MulDivRem(_, _, _)
MulDivRem(a, b, c) ==
    LET Nibble(h) ==
            MulDivBit(MulDivBit(MulDivBit(MulDivBit(h, (b \div 8) % 2, a, c),
                                          (b \div 4) % 2, a, c),
                                (b \div 2) % 2, a, c),
                      b % 2, a, c)
        Rest(h) == IF h[2] >= c THEN h ELSE Nibble(h)
    IN  IF b = 0 THEN <<0, 0>> ELSE Rest(MulDivRem(a, b \div 16, c))

\* round(a * b / c) for 0 <= a, b and 0 < c < 2^31: the quotient of
\* <<quotient, remainder>> rounded to nearest, halves up
MulDivAbs(a, b, c) ==
    LET RoundQuot(h) == IF h[2] >= c - h[2] THEN h[1] + 1 ELSE h[1]
    IN  RoundQuot(MulDivRem(a, b, c))

\* round(a * b / c), signed, c # 0
MulDiv(a, b, c) == Sgn(a) * Sgn(b) * Sgn(c) * MulDivAbs(Abs(a), Abs(b), Abs(c))

\* a / b as a pure number in units of 10^-8
DivE8(a, b) == MulDiv(a, E8, b)

\* round(a * 10^4 / c) for 0 <= a and 0 < c <= 214748: schoolbook division
DivE4Small(a, c) == (a \div c) * E4 + RoundDiv((a % c) * E4, c)

\* floor(sqrt(n)) for 0 <= n < 2^31 (Newton from above)
RECURSIVE ISqrtFrom(_, _)
ISqrtFrom(n, g) ==
    LET g2 == (g + n \div g) \div 2
    IN  IF g2 >= g THEN g ELSE ISqrtFrom(n, g2)
ISqrt(n) == IF n < 2 THEN n ELSE ISqrtFrom(n, Min2(n, 46341))

\* sqrt(a^2 + b^2 + c^2) of three velocities.  With m the largest magnitude
\* and h = m + d:  d = (b^2 + c^2) / (2m + d), iterated to its fixed point.
RECURSIVE HypotFix(_, _, _, _, _)
HypotFix(m, b, c, d, fuel) ==
    LET Improved(d2) ==
            IF fuel = 0 \/ Abs(d2 - d) <= 1 \/ (d = 0 /\ d2 <= 30000 /\ d2 * d2 <= m)
            THEN d2
            ELSE HypotFix(m, b, c, d2, fuel - 1)
    IN  Improved(MulDivAbs(b, b, m + m + d) + MulDivAbs(c, c, m + m + d))
Hypot(p, q, r) ==
    LET Sorted(m, mid, low) == IF m = 0 THEN 0 ELSE m + HypotFix(m, mid, low, 0, 40)
        Largest(a, b, c, m) ==
            Sorted(m, Max2(Min2(a, b), Min2(Max2(a, b), c)),
                   a + b + c - m - Max2(Min2(a, b), Min2(Max2(a, b), c)))
        OfAbs(a, b, c) == Largest(a, b, c, Max2(a, Max2(b, c)))
    IN  OfAbs(Abs(p), Abs(q), Abs(r))


\* round(a * s1 * s2 / c): two rounds of long division
MulDiv2(a, s1, s2, c) ==
    LET Second(h) == h[1] * s2 + MulDivAbs(h[2], s2, Abs(c))
    IN  Sgn(a) * Sgn(c) * Second(MulDivRem(Abs(a), s1, Abs(c)))

Ln2E8 == 69314718
Ln10E8 == 230258509

\* q * 2^k rounded, for a quantity q and the exponent split of ExpParts
Scale2(q, k) == IF k >= 0 THEN q * (2 ^ k) ELSE RoundDiv(q, 2 ^ (-k))

\* exp(y) = 2^k * e^r with r = y - k ln 2, |r| <= ln(2)/2; returns <<k, e^r>>
RECURSIVE ExpSeries(_, _, _, _)
ExpSeries(r, term, n, acc) ==
    IF term = 0 THEN acc
    ELSE ExpSeries(r, RoundDiv(MulE8(term, r), n), n + 1, acc + RoundDiv(MulE8(term, r), n))
ExpParts(y) ==
    LET Split(k) == <<k, ExpSeries(y - k * Ln2E8, E8, 1, E8)>>
    IN  Split(RoundDiv(y, Ln2E8))

\* the value 2^k * e^r of an exponent split, applied to the quantity q
ScaleParts(q, parts) == Scale2(MulE8(q, parts[2]), parts[1])


\* ln(x) for x > 0 in units of 10^-8: x = m 2^k with m in [0.70, 1.42),
\* ln m = 2 atanh((m - 1) / (m + 1))
RECURSIVE AtanhSeries(_, _, _, _)
AtanhSeries(z2, pw, n, acc) ==
    IF pw = 0 THEN acc
    ELSE AtanhSeries(z2, MulE8(pw, z2), n + 2, acc + RoundDiv(MulE8(pw, z2), n + 2))
RECURSIVE LnE8(_)
LnE8(x) ==
    LET Mantissa(z) == 2 * AtanhSeries(MulE8(z, z), z, 1, z)
    IN  IF x > 141421356 THEN LnE8(RoundDiv(x, 2)) + Ln2E8
        ELSE IF x < 70710678 THEN LnE8(2 * x) - Ln2E8
        ELSE Mantissa(DivE8(x - E8, x + E8))

\* ------------------------------------------------------------------------
\* Atmosphere (src/ballistics/atmosphere.py)
\* An atmosphere record holds the four fields of AtmosphericConditions:
\*   temperature_c  in 0.01 degC,  pressure_mbar in 0.01 mbar (= Pa),
\*   humidity_pct   in percent,    altitude_m    in millimetres.
\* A method result is a record [ok |-> TRUE, val |-> v] or, when the method
\* raises, [ok |-> FALSE, err |-> name of the exception].
\* ------------------------------------------------------------------------
STD_DENSITY == 1225            \* 1.225 kg/m^3, in g/m^3
LAPSE_RATE == 65               \* 0.0065 K/m, in 10^-4 K/m
GAS_CONSTANT == 28705          \* 287.05 J/(kg K), in 0.01
Returns(v) == [ok |-> TRUE, val |-> v]
Raises(e) == [ok |-> FALSE, err |-> e]

\* temperature in 0.01 K
temperature_k(atm) == atm.temperature_c + 27315

\* Atmosphere.standard(): 15 degC, 1013.25 mbar, 0 %, 0 m
standard == [temperature_c |-> 1500, pressure_mbar |-> 101325,
             humidity_pct |-> 0, altitude_m |-> 0]

\* Magnus formula and humidity: the actual vapour pressure e, in mPa
\*   es = 6.1078 * 10 ** (7.5 tc / (tc + 237.3)),  e = es * humidity / 100
vapor_pressure(atm) ==
    RoundDiv(ScaleParts(610780,
                        ExpParts(MulE8(MulDiv(75 * atm.temperature_c, 10000000,
                                              atm.temperature_c + 23730), Ln10E8)))
             * atm.humidity_pct, 100)

\* rho = Pd / (Rd T) + e * 100 / (Rv T) with Pd = P - e * 100, in 10^-9 kg/m^3
gas_law(P, e, T) ==
    MulDiv2(P - e, E8, 100, 28705 * T) + MulDiv(e, E8, MulDiv(461495, T, 1000))

\* air density in 10^-9 kg/m^3 (ideal gas law with humidity correction)
air_density(atm) ==
    IF atm.temperature_c + 23730 = 0 THEN Raises("ZeroDivisionError")
    ELSE IF temperature_k(atm) = 0 THEN Raises("ZeroDivisionError")
    ELSE Returns(gas_law(atm.pressure_mbar * 1000, vapor_pressure(atm), temperature_k(atm)))

\* density / STD_DENSITY, in 10^-9
density_ratio(atm) ==
    LET OverStandard(rho) ==
            IF rho.ok THEN Returns(MulDiv(rho.val, 1000, STD_DENSITY)) ELSE rho
    IN  OverStandard(air_density(atm))

\* speed of sound sqrt(1.4 * 287.05 * T), in mm/s: the integer root c in cm/s
\* of n and one Newton step for the next decimal digit
speed_of_sound(atm) ==
    LET Refined(n, c) == 10 * c + RoundDiv((n - c * c) * 10, 2 * c)
    IN  IF temperature_k(atm) < 0 THEN Raises("ValueError")
        ELSE IF temperature_k(atm) = 0 THEN Returns(0)
        ELSE Returns(Refined(40187 * temperature_k(atm), ISqrt(40187 * temperature_k(atm))))

\* Mach number velocity / speed_of_sound, in 10^-8, of a velocity in
\* micrometres/s >= 0 and a speed of sound c in mm/s (schoolbook division,
\* three rounds)
mach_number(atm, velocity) ==
    LET Quotient(c) ==
            (velocity \div c) * 100000
            + (((velocity % c) * 1000) \div c) * 100
            + RoundDiv((((velocity % c) * 1000) % c) * 100, c)
        Over(c) ==
            IF ~c.ok THEN c
            ELSE IF c.val = 0 THEN Raises("ZeroDivisionError")
            ELSE Returns(Quotient(c.val))
    IN  Over(speed_of_sound(atm))

\* Density altitude in millimetres.  air_density() is called outside the
\* try.  In the try, (T0 / L) * (1 - ratio ** (L R / g)) with
\* ratio = rho / STD_DENSITY in 10^-8.  In Python 3 a negative float raised
\* to a non-integer power is a complex number, not a ValueError: the except
\* branch (return conditions.altitude_m) is not taken for a negative ratio
\* and the complex value is returned (kind "complex").
density_altitude_m(atm) ==
    LET Power(ratio) ==
            ScaleParts(E8, ExpParts(MulE8(MulDiv(LAPSE_RATE * GAS_CONSTANT, 10000000, 980665),
                                          LnE8(ratio))))
        Try(ratio) ==
            IF ratio < 0 THEN [kind |-> "complex", err |-> "", val |-> 0]
            ELSE IF ratio = 0
            THEN [kind |-> "float", err |-> "", val |-> MulDiv(28815, 100000, LAPSE_RATE)]
            ELSE [kind |-> "float", err |-> "",
                  val |-> MulE8(MulDiv(28815, 100000, LAPSE_RATE), E8 - Power(ratio))]
        After(rho) ==
            IF ~rho.ok THEN [kind |-> "raise", err |-> rho.err, val |-> 0]
            ELSE Try(MulDiv(rho.val, 100, STD_DENSITY))
    IN  After(air_density(atm))


\* ------------------------------------------------------------------------
\* math.radians, math.sin, math.cos, math.atan on pure numbers in 10^-8
\* ------------------------------------------------------------------------
PiE8 == 314159265

\* degrees are held in units of 0.01 degree
radians(deg) == MulDiv(deg, PiE8, 18000)

\* sum of the alternating series term, -term x^2/((n+1)(n+2)), ...
RECURSIVE TrigSeries(_, _, _, _)
TrigSeries(x2, term, n, acc) ==
    IF term = 0 THEN acc
    ELSE TrigSeries(x2, -RoundDiv(MulE8(term, x2), (n + 1) * (n + 2)), n + 2,
                    acc - RoundDiv(MulE8(term, x2), (n + 1) * (n + 2)))

\* the angle brought into [-pi, pi]
WrapPi(a) == ((a + PiE8) % (2 * PiE8)) - PiE8

\* math.sin: the series on the angle folded into [-pi/2, pi/2]
sin(a) ==
    LET Series(r) == TrigSeries(MulE8(r, r), r, 1, r)
        Folded(w) ==
            Series(IF 2 * w > PiE8 THEN PiE8 - w ELSE IF 2 * w < -PiE8 THEN -PiE8 - w ELSE w)
    IN  Folded(WrapPi(a))

\* math.cos
cos(a) ==
    LET Series(r) == TrigSeries(MulE8(r, r), E8, 0, E8)
        Folded(w) == IF 2 * w > PiE8 THEN -Series(PiE8 - w) ELSE Series(w)
    IN  Folded(Abs(WrapPi(a)))

\* x - x^3/3 + x^5/5 - ... for |x| <= 0.45
RECURSIVE AtanSeries(_, _, _, _)
AtanSeries(x2, pw, n, acc) ==
    IF pw = 0 THEN acc
    ELSE AtanSeries(x2, -MulE8(pw, x2), n + 2, acc + RoundDiv(-MulE8(pw, x2), n + 2))

\* atan(p / q) for q > 0, from the quotient p / q in 10^-8 when it is small
\* and from atan(p/q) = pi/4 + atan((p - q) / (p + q)), or its mirror
\* pi/2 - atan(q / p), otherwise
RECURSIVE atan2pos(_, _)
atan2pos(p, q) ==
    IF p < 0 THEN -atan2pos(-p, q)
    ELSE IF p > q THEN PiE8 \div 2 - atan2pos(q, p)
    ELSE IF p > 9 * (q \div 20) THEN
        IF q > E9 THEN PiE8 \div 4 + atan2pos((p - q) \div 2, (p \div 2) + (q \div 2))
        ELSE PiE8 \div 4 + atan2pos(p - q, p + q)
    ELSE LET Small(x) == AtanSeries(MulE8(x, x), x, 1, x)
         IN  Small(DivE8(p, q))


\* ------------------------------------------------------------------------
\* Drag model (ballistics/drag_models.py: G1_DRAG, G7_DRAG,
\* get_drag_coefficient).  A table is an ordered sequence of
\* <<Mach, Cd>> pairs, both in 10^-8; the lookup interpolates linearly
\* between the two neighbouring entries and clamps outside the table.
\* ------------------------------------------------------------------------
G7_DRAG == << <<0, 11980000>>, <<50000000, 11970000>>, <<80000000, 12420000>>,
              <<90000000, 14640000>>, <<100000000, 38030000>>, <<120000000, 38840000>>,
              <<150000000, 34400000>>, <<200000000, 29800000>>, <<250000000, 26970000>>,
              <<300000000, 24240000>>, <<400000000, 20980000>>, <<500000000, 16180000>> >>
G1_DRAG == << <<0, 26290000>>, <<50000000, 20320000>>, <<80000000, 25460000>>,
              <<90000000, 34150000>>, <<100000000, 48050000>>, <<120000000, 63930000>>,
              <<150000000, 65730000>>, <<200000000, 59340000>>, <<250000000, 53970000>>,
              <<300000000, 51330000>>, <<400000000, 50000000>>, <<500000000, 49880000>> >>
DragTable(name) == IF name = "G7" THEN G7_DRAG ELSE G1_DRAG

\* (Cd[i+1] - Cd[i]) / (Mach[i+1] - Mach[i]) of every table segment, in 10^-8
DragSlopes ==
    [name \in {"G1", "G7"} |->
        [i \in 1..(Len(DragTable(name)) - 1) |->
            DivE8(DragTable(name)[i + 1][2] - DragTable(name)[i][2],
                  DragTable(name)[i + 1][1] - DragTable(name)[i][1])]]

\* the table segment holding mach, and the interpolation inside it
get_drag_coefficient(mach, name) ==
    LET Segment(tab) ==
            CHOOSE j \in 1..(Len(tab) - 1) : tab[j][1] <= mach /\ mach < tab[j + 1][1]
        Interpolate(tab, slopes, i) == tab[i][2] + MulE8(slopes[i], mach - tab[i][1])
        Lookup(tab, slopes) ==
            IF mach <= tab[1][1] THEN tab[1][2]
            ELSE IF mach >= tab[Len(tab)][1] THEN tab[Len(tab)][2]
            ELSE Interpolate(tab, slopes, Segment(tab))
    IN  Lookup(DragTable(name), DragSlopes[name])

\* ------------------------------------------------------------------------
\* Solver data (src/ballistics/solver.py)
\*   Projectile  mass_grains in 0.01 gr, diameter_inches and length_inches
\*               in 0.001 in, bc_g1 / bc_g7 Optional[float]: <<>> is None,
\*               <<b>> is the coefficient b in 0.001
\*   Rifle       muzzle_velocity_mps in micrometres/s, zero_range_m in
\*               micrometres, sight_height_mm in micrometres,
\*               twist_rate_inches in 0.001 in, twist_direction a string
\*   Wind        speed_mps in micrometres/s, direction_deg in 0.01 degree
\*   latitude_deg, azimuth_deg, elevation_angle_deg in 0.01 degree
\* ------------------------------------------------------------------------
None == <<>>
Some(v) == <<v>>
\* Python truth value of an Optional[float]: None and 0.0 are false
Truthy(o) == o # None /\ o[1] # 0

EARTH_ROTATION_RAD_S == 7292116    \* 7.2921159e-5 rad/s, in 10^-11
GRAVITY == 9806650                 \* 9.80665 m/s^2, in micrometres/s^2
RETARDATION_CONSTANT == 1600
DtTicks == 1                       \* dt = 0.0001 s is one tick
TicksPerSecond == 10000
TickE8 == E8 \div TicksPerSecond     \* one tick in 10^-8 s: a sample's time_s is in 10^-8 s
MaxFlightSeconds == 10             \* while ... and t < 10
\* The double sum of n copies of 0.0001 is still below 10.0 for n = 100000
\* (it is 9.99999999999...), so the loop guard t < 10 first fails one step
\* later than 10 / dt steps.
AccumulationSlack == 1
ZeroIterations == 10               \* for _ in range(10)
ZeroTolerance == 100               \* 0.0001 m, in micrometres
ZeroMargin == 10 * Micro           \* target_range_m + 10
ZeroStep == 1 * Micro              \* step_m = 1
SolveMargin == 100 * Micro         \* target_range_m + 100, zero_range + 100

\* Projectile.mass_kg = mass_grains * 0.0000647989, in 10^-8 kg
mass_kg(proj) == MulDiv(proj.mass_grains, 647989, 10000)
\* Rifle.sight_height_m = sight_height_mm / 1000, in micrometres
sight_height_m(rifle) == rifle.sight_height_mm
\* a crosswind component that forgets the side the wind comes from
crosswind_component_unsigned(wind) ==
    MulE8(wind.speed_mps, Abs(sin(radians(wind.direction_deg))))
\* Wind.crosswind_component = speed * sin(radians(direction))
crosswind_component(wind) == MulE8(wind.speed_mps, sin(radians(wind.direction_deg)))
\* Wind.headwind_component = speed * cos(radians(direction))
headwind_component(wind) == MulE8(wind.speed_mps, cos(radians(wind.direction_deg)))

\* BallisticSolver._select_drag_model: the solver fields it sets, or the
\* ValueError it raises
select_drag_model(proj) ==
    IF Truthy(proj.bc_g7) THEN Returns([drag_model |-> "G7", bc |-> proj.bc_g7[1]])
    ELSE IF Truthy(proj.bc_g1) THEN Returns([drag_model |-> "G1", bc |-> proj.bc_g1[1]])
    ELSE Raises("ValueError")


\* ------------------------------------------------------------------------
\* Inputs
\* ------------------------------------------------------------------------
Bullet(g1, g7) == [mass_grains |-> 17500, diameter_inches |-> 308,
                   bc_g1 |-> g1, bc_g7 |-> g7, length_inches |-> 1000]
RifleOf(mv, zero, sight) == [muzzle_velocity_mps |-> mv * Micro, zero_range_m |-> zero * Micro,
                             sight_height_mm |-> sight * 1000, twist_rate_inches |-> 10000,
                             twist_direction |-> "right"]
Calm == [speed_mps |-> 0, direction_deg |-> 0]
Shooting(proj, rifle, atm, wind, lat, az) ==
    [projectile |-> proj, rifle |-> rifle, atmosphere |-> atm, wind |-> wind,
     latitude_deg |-> lat, azimuth_deg |-> az, elevation_angle_deg |-> 0]

\* a .308 load zeroed at 20 m with a low sight: the zero search converges
LowSight == Shooting(Bullet(None, Some(243)), RifleOf(850, 20, 5), standard, Calm, 4170, 9000)
\* the same with a 90 mm sight: ten iterations do not reach 0.1 mm
HighSight == Shooting(Bullet(None, Some(243)), RifleOf(850, 20, 90), standard, Calm, 4170, 0)
\* both coefficients populated, and neither
BothBC == Shooting(Bullet(Some(475), Some(243)), RifleOf(850, 20, 5), standard, Calm, 4170, 0)
NoBC == Shooting(Bullet(None, None), RifleOf(850, 20, 5), standard, Calm, 4170, 0)
\* bc_g1 = 0.0, bc_g7 = None
ZeroBC == Shooting(Bullet(Some(0), None), RifleOf(850, 20, 5), standard, Calm, 4170, 0)
\* a zero range of 0 m and of -20 m
ZeroAtMuzzle == Shooting(Bullet(None, Some(243)), RifleOf(850, 0, 40), standard, Calm, 4170, 0)
ZeroBehind == Shooting(Bullet(None, Some(243)), RifleOf(850, -20, 40), standard, Calm, 4170, 0)
\* a subsonic load zeroed at 15 m on the equator, no wind
Subsonic == Shooting(Bullet(None, Some(243)), RifleOf(200, 15, 40), standard, Calm, 0, 0)

\* a projectile lobbed at 1 m/s with a zero range of 4 m: it is still short
\* of the zero range when the flight-time ceiling ends the integration
SlowLob == Shooting(Bullet(None, Some(243)), RifleOf(1, 4, 40), standard, Calm, 0, 0)

\* the .308 load in a 5 m/s wind from the right (90 degrees) and from the
\* front right (45 degrees)
CrossWind == Shooting(Bullet(None, Some(243)), RifleOf(850, 20, 5), standard,
                      [speed_mps |-> 5 * Micro, direction_deg |-> 9000], 4170, 0)
QuarterWind == Shooting(Bullet(None, Some(243)), RifleOf(850, 20, 5), standard,
                        [speed_mps |-> 5 * Micro, direction_deg |-> 4500], 4170, 9000)
\* the same conditions with the wind coming from the opposite direction
reversed_wind(c) == [c EXCEPT !.wind.direction_deg = (@ + 18000) % 36000]

Scenarios == {LowSight, HighSight, BothBC, NoBC, ZeroBC, ZeroAtMuzzle, ZeroBehind, Subsonic}
\* a slow load, 50 m/s with a 5 m zero: its drag is weaker than gravity
SlowFlat == Shooting(Bullet(None, Some(243)), RifleOf(50, 5, 40), standard, Calm, 0, 0)
\* the solvers of the slow-projectile specification
SlowScenarios == {SlowFlat}
\* the solvers of the flight-time ceiling specification
CeilingScenarios == {SlowLob, HighSight}
\* the solvers of the wind specification
WindScenarios == {CrossWind, QuarterWind}

\* the solve(target_range_m, step_m) calls made on each solver
SolveCalls(c) ==
    IF c = LowSight THEN {<<20 * Micro, 10 * Micro>>, <<20 * Micro, 100 * Micro>>,
                          <<20 * Micro, 150 * Micro>>}
    ELSE IF c = Subsonic THEN {<<15 * Micro, 10 * Micro>>}
    ELSE IF c = SlowFlat THEN {<<5 * Micro, 10 * Micro>>}
    ELSE {<<20 * Micro, 10 * Micro>>}

\* atmospheres on which the Atmosphere methods are called
ThinAir == [temperature_c |-> 2500, pressure_mbar |-> 95000, humidity_pct |-> 50,
            altitude_m |-> 500000]
NegativePressure == [temperature_c |-> 1500, pressure_mbar |-> -101325, humidity_pct |-> 0,
                     altitude_m |-> 123000]
Atmospheres == {standard, ThinAir, NegativePressure}
\* the standard atmosphere reported from a station 1500 m above sea level
HighStandard == [standard EXCEPT !.altitude_m = 1500000]

\* density_ratio() of every atmosphere in use, computed once
DensityRatioMemo == [a \in Atmospheres \cup {HighStandard} |-> density_ratio(a)]

\* ------------------------------------------------------------------------
\* State
\* ------------------------------------------------------------------------
VARIABLES
    conditions,   \* the ShootingConditions held by the solver
    solver,       \* drag_model and bc chosen by _select_drag_model
    pc,           \* where the program is
    args,         \* target_range_m, step_m of the running solve()
    zero,         \* locals of _find_zero_angle
    integ,        \* locals of _integrate_trajectory
    trajectory,   \* the list of TrajectoryPoint being built / corrected
    post,         \* locals of solve() after the final integration
    solution,     \* None or the returned BallisticSolution
    outcome,      \* "" or the exception that ended the last call
    query,        \* the last at_range / Atmosphere method call and its result
    peer,         \* a second solve() call: the conditions and the Solution of an
                  \* earlier call the caller has kept, or NoPeer
    users_file,   \* auth.py: the file USERS_FILE (~/.strelokai/users.json)
    calls         \* auth.py: per thread, the locals and the result of its
                  \* create_user / authenticate_user call
vars == <<conditions, solver, pc, args, zero, integ, trajectory, post, solution, outcome, query,
          peer, users_file, calls>>

NoSolver == [drag_model |-> "", bc |-> 0]
NoArgs == [target_range_m |-> 0, step_m |-> 0]
NoZero == [target_range_m |-> 0, angle_guess |-> 0, iterations |-> 0, error |-> 0]
NoInteg == [caller |-> "", bore_angle |-> 0, max_range_m |-> 0, step_m |-> 0,
            x |-> 0, y |-> 0, z |-> 0, xr |-> 0, yr |-> 0, zr |-> 0,
            vx |-> 0, vy |-> 0, vz |-> 0, vxr |-> 0, vyr |-> 0, vzr |-> 0,
            t |-> 0, last_x |-> 0, wind_x |-> 0, wind_z |-> 0, v_total |-> 0, mach |-> 0]
NoPost == [zero_angle |-> 0, target_pt |-> 0, spin_drift_m |-> 0,
           coriolis_vertical_m |-> 0, coriolis_horizontal_m |-> 0, corrected |-> 0]
NoQuery == [op |-> "", r |-> 0, atm |-> standard, kind |-> "", val |-> <<>>, err |-> "",
            alias |-> FALSE]
NoPeer == [role |-> "", wind |-> Calm, args |-> NoArgs, solution |-> None]


\* ------------------------------------------------------------------------
\* BallisticSolver
\* ------------------------------------------------------------------------
\* round(a * 10^4 / c), signed
SDivE4(a, c) == Sgn(a) * Sgn(c) * DivE4Small(Abs(a), Abs(c))

\* _drag_force(velocity, mach) / velocity, in 10^-8 per second:
\*   rho_ratio * cd * velocity / (bc * RETARDATION_CONSTANT)
\* (bc is held in 0.001, so bc * 1600 in 0.01 is bc * 160)
drag_per_speed(c, s, velocity, mach) ==
    SDivE4(MulE8(MulE8(RoundDiv(DensityRatioMemo[c.atmosphere].val, 10),
                       get_drag_coefficient(mach, s.drag_model)),
                 velocity),
           (s.bc * RETARDATION_CONSTANT) \div 10)

\* an entry to the loop that takes the headwind component itself for wind_x
integrate_entry_tailwind(c, caller, bore_angle, max_range_m, step_m) ==
    [caller |-> caller, bore_angle |-> bore_angle, max_range_m |-> max_range_m,
     step_m |-> step_m,
     x |-> 0, y |-> -sight_height_m(c.rifle), z |-> 0,
     xr |-> 0, yr |-> 0, zr |-> 0,
     vx |-> MulE8(c.rifle.muzzle_velocity_mps, cos(bore_angle)),
     vy |-> MulE8(c.rifle.muzzle_velocity_mps, sin(bore_angle)),
     vz |-> 0,
     vxr |-> 0, vyr |-> 0, vzr |-> 0,
     t |-> 0, last_x |-> 0,
     wind_x |-> headwind_component(c.wind),
     wind_z |-> crosswind_component(c.wind),
     v_total |-> 0, mach |-> 0]

\* _integrate_trajectory, lines 338-361: the locals on entry to the loop
\* (v_total and mach are not bound before the first pass: held as 0)
integrate_entry(c, caller, bore_angle, max_range_m, step_m) ==
    [caller |-> caller, bore_angle |-> bore_angle, max_range_m |-> max_range_m,
     step_m |-> step_m,
     x |-> 0, y |-> -sight_height_m(c.rifle), z |-> 0,
     xr |-> 0, yr |-> 0, zr |-> 0,
     vx |-> MulE8(c.rifle.muzzle_velocity_mps, cos(bore_angle)),
     vy |-> MulE8(c.rifle.muzzle_velocity_mps, sin(bore_angle)),
     vz |-> 0,
     vxr |-> 0, vyr |-> 0, vzr |-> 0,
     t |-> 0, last_x |-> 0,
     wind_x |-> -headwind_component(c.wind),
     wind_z |-> crosswind_component(c.wind),
     v_total |-> 0, mach |-> 0]

\* t < 10 on the accumulated double t
BelowCeiling(t) == t < MaxFlightSeconds * TicksPerSecond + AccumulationSlack

\* a loop guard that tests the flight time only
loop_guard_time_only(it) == BelowCeiling(it.t)

\* the loop guard: while x < max_range_m and t < 10
loop_guard(it) == it.x < it.max_range_m /\ BelowCeiling(it.t)

\* a sample test that is met from the first pass on
records_sample_at_once(x, last_x, step_m) == x >= last_x

\* a sample test that measures from the muzzle instead of the last sample
records_sample_from_muzzle(x, last_x, step_m) == x >= step_m

\* if x >= last_x + step_m
records_sample(x, last_x, step_m) == x >= last_x + step_m

\* kinetic energy 0.5 * mass_kg * v_total^2, in 10^-4 J
energy_j(proj, v_total) == RoundDiv(MulE8(MulE8(v_total, mass_kg(proj)), v_total), 2)

\* a sample that reports the speed and energy after the velocity update
new_sample_updated_speed(c, it, v_total, mach) ==
    [time_s |-> it.t * TickE8, range_m |-> it.x, drop_m |-> it.y, windage_m |-> it.z,
     velocity_mps |-> Hypot(it.vx, it.vy, it.vz),
     energy_j |-> energy_j(c.projectile, Hypot(it.vx, it.vy, it.vz)), mach |-> mach]

\* lines 400-411: the sample appended in a pass that ends in the locals it;
\* its speed, energy and Mach number were computed before the update
new_sample(c, it, v_total, mach) ==
    [time_s |-> it.t * TickE8, range_m |-> it.x, drop_m |-> it.y, windage_m |-> it.z,
     velocity_mps |-> v_total, energy_j |-> energy_j(c.projectile, v_total), mach |-> mach]

\* lines 400-411: the sample test on the updated locals; v_total (368) and
\* mach (371) are locals of the call like the others and keep the values of
\* this pass
step_record(c, it, v_total, mach) ==
    IF records_sample(it.x, it.last_x, it.step_m)
    THEN [it |-> [it EXCEPT !.last_x = it.x, !.v_total = v_total, !.mach = mach],
          sample |-> <<new_sample(c, it, v_total, mach)>>,
          err |-> ""]
    ELSE [it |-> [it EXCEPT !.v_total = v_total, !.mach = mach], sample |-> <<>>, err |-> ""]

\* The lateral pair (z, zr), (vz, vzr) is carried toward zero, the part below
\* one unit keeping the sign of the sum: like the rounding of a double, the
\* carry of -a is minus the carry of a.
lateral_carry(a) == Sgn(a) * (Abs(a) \div TicksPerSecond)
lateral_rest(a) == Sgn(a) * (Abs(a) % TicksPerSecond)

\* a position update that leaves t += dt out
step_position_without_time(it) ==
    [it EXCEPT !.x = it.x + (it.xr + it.vx) \div TicksPerSecond,
               !.xr = (it.xr + it.vx) % TicksPerSecond,
               !.y = it.y + (it.yr + it.vy) \div TicksPerSecond,
               !.yr = (it.yr + it.vy) % TicksPerSecond,
               !.z = it.z + lateral_carry(it.zr + it.vz),
               !.zr = lateral_rest(it.zr + it.vz)]

\* lines 394-397: the position moves by the velocity already updated, and
\* t += dt.  xr, yr, zr carry the part of the position below one micrometre,
\* in 10^-4 micrometres.
step_position(it) ==
    [it EXCEPT !.x = it.x + (it.xr + it.vx) \div TicksPerSecond,
               !.xr = (it.xr + it.vx) % TicksPerSecond,
               !.y = it.y + (it.yr + it.vy) \div TicksPerSecond,
               !.yr = (it.yr + it.vy) % TicksPerSecond,
               !.z = it.z + lateral_carry(it.zr + it.vz),
               !.zr = lateral_rest(it.zr + it.vz),
               !.t = it.t + DtTicks]

\* lines 385-392: v += a * dt.  vxr, vyr, vzr carry the part of the velocity
\* below one micrometre/s, in 10^-4 micrometres/s.
step_velocity(it, ax, ay, az) ==
    [it EXCEPT !.vx = it.vx + (it.vxr + ax) \div TicksPerSecond,
               !.vxr = (it.vxr + ax) % TicksPerSecond,
               !.vy = it.vy + (it.vyr + ay) \div TicksPerSecond,
               !.vyr = (it.vyr + ay) % TicksPerSecond,
               !.vz = it.vz + lateral_carry(it.vzr + az),
               !.vzr = lateral_rest(it.vzr + az)]

\* an acceleration in which gravity also pulls sideways
step_accelerate_gravity_sideways(it, ax_drag, ay_drag, az_drag) ==
    step_velocity(it, ax_drag, ay_drag - GRAVITY, az_drag - GRAVITY)

\* lines 385-387: total acceleration from the drag components
step_accelerate(it, ax_drag, ay_drag, az_drag) ==
    step_velocity(it, ax_drag, ay_drag - GRAVITY, az_drag)

\* drag components that point along the velocity instead of against it
step_drag_pushing(it, v_rel, rate) ==
    IF v_rel > 0
    THEN step_accelerate(it, MulE8(rate, it.vx - it.wind_x),
                             MulE8(rate, it.vy),
                             MulE8(rate, it.vz - it.wind_z))
    ELSE step_accelerate(it, 0, 0, 0)

\* lines 377-382: the drag components -drag_acc * v / v_rel, with
\* rate = drag_acc / v_rel
step_drag(it, v_rel, rate) ==
    IF v_rel > 0
    THEN step_accelerate(it, -MulE8(rate, it.vx - it.wind_x),
                             -MulE8(rate, it.vy),
                             -MulE8(rate, it.vz - it.wind_z))
    ELSE step_accelerate(it, 0, 0, 0)

\* a pass that moves the position by the velocity of the pass before and
\* updates the velocity afterwards
step_update_position_first(c, it, v_rel, v_total, mach, rate) ==
    step_record(c, step_drag(step_position(it), v_rel, rate), v_total, mach)

\* lines 377-411: the pass from the drag components on
step_update(c, it, v_rel, v_total, mach, rate) ==
    step_record(c, step_position(step_drag(it, v_rel, rate)), v_total, mach)

\* lines 371-374: Mach number and drag deceleration; either call may raise
step_mach(c, s, it, v_rel, v_total, mach) ==
    IF ~mach.ok THEN [it |-> it, sample |-> <<>>, err |-> mach.err]
    ELSE IF ~DensityRatioMemo[c.atmosphere].ok
    THEN [it |-> it, sample |-> <<>>, err |-> DensityRatioMemo[c.atmosphere].err]
    ELSE step_update(c, it, v_rel, v_total, mach.val, drag_per_speed(c, s, v_rel, mach.val))

\* lines 365-371
step_speeds(c, s, it, v_rel, v_total) ==
    step_mach(c, s, it, v_rel, v_total, mach_number(c.atmosphere, v_rel))

\* One pass of the loop body, lines 364-411.  The result holds the locals
\* after the pass, the sample appended in it (<<>> if none) and the
\* exception raised in it ("" if none).
integrate_step(c, s, it) ==
    step_speeds(c, s, it,
                Hypot(it.vx - it.wind_x, it.vy, it.vz - it.wind_z),
                Hypot(it.vx, it.vy, it.vz))

\* atan(p / q) as the program evaluates it: ZeroDivisionError for q = 0
atan_ratio(p, q) ==
    IF q = 0 THEN Raises("ZeroDivisionError")
    ELSE IF q < 0 THEN Returns(atan2pos(-p, -q))
    ELSE Returns(atan2pos(p, q))

\* drop_simple = 0.5 * GRAVITY * t_flight ** 2, t_flight in 10^-8 s
drop_simple(t_flight) == RoundDiv(MulE8(GRAVITY, MulE8(t_flight, t_flight)), 2)

\* _find_zero_angle, lines 299-305: the initial guess
zero_initial_guess(c, target_range_m) ==
    IF c.rifle.muzzle_velocity_mps = 0 THEN Raises("ZeroDivisionError")
    ELSE atan_ratio(drop_simple(DivE8(target_range_m, c.rifle.muzzle_velocity_mps))
                    + sight_height_m(c.rifle),
                    target_range_m)

\* index of the first sample with range_m >= r, 0 if there is none
first_at_or_past(traj, r) ==
    IF \E i \in 1..Len(traj) : traj[i].range_m >= r
    THEN CHOOSE i \in 1..Len(traj) :
            traj[i].range_m >= r /\ \A j \in 1..(i - 1) : traj[j].range_m < r
    ELSE 0

\* the loop of _find_zero_angle ends: abs(error) < 0.0001, or range(10) is
\* exhausted after the pass numbered iterations (from 1)
zero_done_at_limit_only(error, iterations) == iterations >= ZeroIterations
zero_done(error, iterations) == Abs(error) < ZeroTolerance \/ iterations >= ZeroIterations

\* an update that makes the test first and leaves a converged angle alone
zero_update_test_first(z, error, correction) ==
    IF ~correction.ok THEN [err |-> correction.err, zero |-> z, done |-> FALSE]
    ELSE [err |-> "",
          zero |-> [z EXCEPT !.angle_guess = IF Abs(error) < ZeroTolerance THEN @
                                             ELSE @ + MulE8(correction.val, E8 \div 2),
                             !.iterations = z.iterations + 1,
                             !.error = error],
          done |-> zero_done(error, z.iterations + 1)]

\* lines 325-329: the damped correction is added, then the test is made
zero_update(z, error, correction) ==
    IF ~correction.ok THEN [err |-> correction.err, zero |-> z, done |-> FALSE]
    ELSE [err |-> "",
          zero |-> [z EXCEPT !.angle_guess = z.angle_guess + MulE8(correction.val, E8 \div 2),
                             !.iterations = z.iterations + 1,
                             !.error = error],
          done |-> zero_done(error, z.iterations + 1)]

\* lines 324-325: error = -drop_at_zero - sight_height
zero_error(z, error) == zero_update(z, error, atan_ratio(error, z.target_range_m))

\* lines 316-321: the drop of the first sample at or past the zero range,
\* of the last sample if there is none (IndexError on an empty list)
zero_read(c, z, traj, i) ==
    IF i = 0 /\ Len(traj) = 0 THEN [err |-> "IndexError", zero |-> z, done |-> FALSE]
    ELSE zero_error(z, -(IF i > 0 THEN traj[i].drop_m ELSE traj[Len(traj)].drop_m)
                       - sight_height_m(c.rifle))

\* _find_zero_angle, lines 316-331, after one integration: the drop read,
\* the new angle guess and whether the loop ends
zero_adjust(c, z, traj) == zero_read(c, z, traj, first_at_or_past(traj, z.target_range_m))

\* a spin drift that takes no notice of the twist direction
spin_drift_ignoring_twist(c, time_s, range_m) ==
    IF time_s <= 0 THEN 0
    ELSE RoundDiv(ScaleParts(MulE8(2540000, 150000000 + 120000000),
                             ExpParts(MulE8(183000000, LnE8(time_s)))), E4)

\* _spin_drift(time_s, range_m), in micrometres:
\*   0.0254 * (sg + 1.2) * time_s ** 1.83 / 100 with sg = 1.5, negated for a
\*   left-hand twist; 0 when time_s <= 0
spin_drift(c, time_s, range_m) ==
    LET Drift(parts) ==
            RoundDiv(ScaleParts(MulE8(2540000, 150000000 + 120000000), parts), E4)
    IN  IF time_s <= 0 THEN 0
        ELSE IF c.rifle.twist_direction = "left"
        THEN -Drift(ExpParts(MulE8(183000000, LnE8(time_s))))
        ELSE Drift(ExpParts(MulE8(183000000, LnE8(time_s))))

\* _coriolis_effect(time_s, range_m, velocity_mps) = <<vertical_m, horizontal_m>>
\* in micrometres: omega * range * cos(lat) * sin(azimuth) * t and
\* omega * range * sin(lat) * t
\* (reach = omega * range, in nm/s)
coriolis_effect(c, time_s, range_m) ==
    LET Pair(reach, lat_rad, azimuth_rad) ==
            << RoundDiv(MulE8(MulE8(MulE8(reach, cos(lat_rad)), sin(azimuth_rad)), time_s),
                        1000),
               RoundDiv(MulE8(MulE8(reach, sin(lat_rad)), time_s), 1000) >>
    IN  Pair(MulE8(range_m, EARTH_ROTATION_RAD_S),
             radians(c.latitude_deg), radians(c.azimuth_deg))

\* lines 434-442 with a target point: the three scalars
scalars_at(zero_angle, i, sd, cor) ==
    [zero_angle |-> zero_angle, target_pt |-> i, spin_drift_m |-> sd,
     coriolis_vertical_m |-> cor[1], coriolis_horizontal_m |-> cor[2], corrected |-> 0]

\* scalars that take the time of flight of the last sample
scalars_of_last_sample(c, target_range_m, traj, zero_angle, i) ==
    IF i > 0
    THEN scalars_at(zero_angle, i,
                    spin_drift(c, traj[Len(traj)].time_s, target_range_m),
                    coriolis_effect(c, traj[Len(traj)].time_s, target_range_m))
    ELSE scalars_at(zero_angle, 0, 0, <<0, 0>>)

\* lines 428-442: the first sample at or past the target range, number i
scalars_of(c, target_range_m, traj, zero_angle, i) ==
    IF i > 0
    THEN scalars_at(zero_angle, i,
                    spin_drift(c, traj[i].time_s, target_range_m),
                    coriolis_effect(c, traj[i].time_s, target_range_m))
    ELSE scalars_at(zero_angle, 0, 0, <<0, 0>>)

\* solve, lines 427-442: the target point and the three scalars
solve_scalars(c, target_range_m, traj, zero_angle) ==
    scalars_of(c, target_range_m, traj, zero_angle, first_at_or_past(traj, target_range_m))

\* a correction that forgets pt.drop_m += cv
add_corrections_windage_only(pt, sd, cor) ==
    [pt EXCEPT !.windage_m = pt.windage_m + (sd + cor[2])]

\* lines 449-450: pt.windage_m += sd + ch; pt.drop_m += cv
add_corrections(pt, sd, cor) ==
    [pt EXCEPT !.windage_m = pt.windage_m + (sd + cor[2]),
               !.drop_m = pt.drop_m + cor[1]]

\* a correction whose spin drift grows as the twist gets faster
corrected_point_by_twist_rate(c, pt) ==
    add_corrections(pt, MulDiv(spin_drift(c, pt.time_s, pt.range_m), 10000,
                               c.rifle.twist_rate_inches),
                    coriolis_effect(c, pt.time_s, pt.range_m))

\* solve, lines 446-450: one sample after its correction
corrected_point(c, pt) ==
    add_corrections(pt, spin_drift(c, pt.time_s, pt.range_m),
                    coriolis_effect(c, pt.time_s, pt.range_m))

\* a correction loop that stops one sample early
corrections_done_one_early(n, traj) == n >= Len(traj) - 1

\* the loop "for pt in trajectory" of lines 445-450 has visited every sample
corrections_done(n, traj) == n >= Len(traj)

\* an interpolation weighted from the wrong end
mix_from_upper(t, a, b) == b + MulE8(t, a - b)

\* a + t * (b - a), t in 10^-8
mix(t, a, b) == a + MulE8(t, b - a)

\* lines 163-170: the interpolated point at the fraction t
interpolated(pt, next_pt, range_m, t) ==
    [time_s |-> mix(t, pt.time_s, next_pt.time_s),
     range_m |-> range_m,
     drop_m |-> mix(t, pt.drop_m, next_pt.drop_m),
     windage_m |-> mix(t, pt.windage_m, next_pt.windage_m),
     velocity_mps |-> mix(t, pt.velocity_mps, next_pt.velocity_mps),
     energy_j |-> mix(t, pt.energy_j, next_pt.energy_j),
     mach |-> mix(t, pt.mach, next_pt.mach)]

\* an interpolation that hands out the sample itself when the range asked
\* for is the sample's own
between_reusing_sample(pt, next_pt, range_m) ==
    IF next_pt.range_m - pt.range_m = 0
    THEN [kind |-> "raise", val |-> <<>>, err |-> "ZeroDivisionError", alias |-> FALSE]
    ELSE IF range_m = pt.range_m
    THEN [kind |-> "point", err |-> "", val |-> <<pt>>, alias |-> TRUE]
    ELSE [kind |-> "point", err |-> "", alias |-> FALSE,
          val |-> <<interpolated(pt, next_pt, range_m,
                                 DivE8(range_m - pt.range_m, next_pt.range_m - pt.range_m))>>]

\* lines 161-170: t = (range_m - pt.range_m) / (next_pt.range_m - pt.range_m);
\* the point returned is built by the constructor TrajectoryPoint(...), so
\* it is never one of the objects of the trajectory (alias FALSE)
between(pt, next_pt, range_m) ==
    IF next_pt.range_m - pt.range_m = 0
    THEN [kind |-> "raise", val |-> <<>>, err |-> "ZeroDivisionError", alias |-> FALSE]
    ELSE [kind |-> "point", err |-> "", alias |-> FALSE,
          val |-> <<interpolated(pt, next_pt, range_m,
                                 DivE8(range_m - pt.range_m, next_pt.range_m - pt.range_m))>>]

\* an enclosing test that leaves the upper end out
enclosing_lower_only(traj, range_m) ==
    {i \in 1..(Len(traj) - 1) : traj[i].range_m <= range_m}

\* the pairs (trajectory[i], trajectory[i + 1]) whose ranges enclose range_m
enclosing(traj, range_m) ==
    {i \in 1..(Len(traj) - 1) :
        traj[i].range_m <= range_m /\ range_m <= traj[i + 1].range_m}

\* the first enclosing pair decides; None when there is none
at_range_in(traj, range_m, hits) ==
    IF hits = {} THEN [kind |-> "None", val |-> <<>>, err |-> "", alias |-> FALSE]
    ELSE between(traj[CHOOSE j \in hits : \A k \in hits : j <= k],
                 traj[(CHOOSE j \in hits : \A k \in hits : j <= k) + 1], range_m)

\* BallisticSolution.at_range(range_m): kind "None", kind "point" with the
\* interpolated TrajectoryPoint, or kind "raise"; alias tells whether the
\* object returned is one of the trajectory's own samples
at_range(traj, range_m) == at_range_in(traj, range_m, enclosing(traj, range_m))

\* ------------------------------------------------------------------------
\* Operations
\* ------------------------------------------------------------------------
InitWith(scenarios) ==
    /\ conditions \in scenarios
    /\ solver = NoSolver
    /\ pc = "new"
    /\ args = NoArgs
    /\ zero = NoZero
    /\ integ = NoInteg
    /\ trajectory = <<>>
    /\ post = NoPost
    /\ solution = None
    /\ outcome = ""
    /\ query = NoQuery
    /\ peer = NoPeer
    /\ users_file = [state |-> "absent", users |-> <<>>, size |-> 0]
    /\ calls = [p \in 1..2 |-> [op |-> "", pc |-> "idle", username |-> "", password |-> "",
                                users |-> <<>>, stored |-> <<>>, ok |-> FALSE,
                                message |-> ""]]

Init == InitWith(Scenarios)

\* BallisticSolver(conditions): __init__ and _select_drag_model; the
\* constructor returns the solver or raises
Construct ==
    LET Constructed(r) ==
            IF r.ok
            THEN solver' = r.val /\ pc' = "idle" /\ outcome' = outcome
            ELSE solver' = solver /\ pc' = "failed" /\ outcome' = r.err
    IN  /\ pc = "new"
        /\ Constructed(select_drag_model(conditions.projectile))
        /\ UNCHANGED <<conditions, args, zero, integ, trajectory, post, solution, query, peer,
                       users_file, calls>>

\* solve(target_range_m, step_m) up to the first pass of the integration
\* loop of the zero search (solve 420-421, _find_zero_angle 299-313):
\* _find_zero_angle is entered with its initial guess, or the guess raises
SolveBegin ==
    LET ZeroEntered(zero_range, guess) ==
            IF guess.ok
            THEN /\ zero' = [target_range_m |-> zero_range, angle_guess |-> guess.val,
                             iterations |-> 0, error |-> 0]
                 /\ integ' = integrate_entry(conditions, "zero", guess.val,
                                             zero_range + ZeroMargin, ZeroStep)
                 /\ pc' = "integrate"
                 /\ outcome' = outcome
            ELSE /\ pc' = "raised"
                 /\ outcome' = guess.err
                 /\ UNCHANGED <<zero, integ>>
    IN  /\ pc = "idle"
        /\ \E a \in SolveCalls(conditions) :
              args' = [target_range_m |-> a[1], step_m |-> a[2]]
        /\ ZeroEntered(conditions.rifle.zero_range_m,
                       zero_initial_guess(conditions, conditions.rifle.zero_range_m))
        /\ trajectory' = <<>>
        /\ UNCHANGED <<conditions, solver, post, solution, query, peer, users_file, calls>>

\* one pass of the while loop of _integrate_trajectory: the pass appends its
\* sample, or its exception leaves the call
IntegrateStep ==
    LET Stepped(r) ==
            IF r.err = ""
            THEN /\ integ' = r.it
                 /\ trajectory' = trajectory \o r.sample
                 /\ UNCHANGED <<pc, outcome>>
            ELSE /\ pc' = "raised"
                 /\ outcome' = r.err
                 /\ UNCHANGED <<integ, trajectory>>
    IN  /\ pc = "integrate"
        /\ loop_guard(integ)
        /\ Stepped(integrate_step(conditions, solver, integ))
        /\ UNCHANGED <<conditions, solver, args, zero, post, solution, query, peer,
                       users_file, calls>>

\* the integration of a zero-search iteration returns: read the drop, adjust
\* the angle, test for convergence; after the adjustment the search
\* integrates again, or returns the angle to solve, which starts the final
\* integration (solve 424-425)
ZeroAdjust ==
    LET ZeroAdjusted(r) ==
            IF r.err # ""
            THEN /\ pc' = "raised"
                 /\ outcome' = r.err
                 /\ UNCHANGED <<zero, integ, trajectory, post>>
            ELSE /\ zero' = r.zero
                 /\ trajectory' = <<>>
                 /\ UNCHANGED <<pc, outcome>>
                 /\ IF r.done
                    THEN /\ integ' = integrate_entry(
                                        conditions, "solve", r.zero.angle_guess,
                                        Max2(args.target_range_m + SolveMargin,
                                             conditions.rifle.zero_range_m + SolveMargin),
                                        args.step_m)
                         /\ post' = [NoPost EXCEPT !.zero_angle = r.zero.angle_guess]
                    ELSE /\ integ' = integrate_entry(
                                        conditions, "zero", r.zero.angle_guess,
                                        zero.target_range_m + ZeroMargin, ZeroStep)
                         /\ post' = post
    IN  /\ pc = "integrate"
        /\ integ.caller = "zero"
        /\ ~loop_guard(integ)
        /\ ZeroAdjusted(zero_adjust(conditions, zero, trajectory))
        /\ UNCHANGED <<conditions, solver, args, solution, query, peer, users_file, calls>>

\* the final integration returns: find the target point and compute the
\* scalar corrections (solve 427-442)
SolveScan ==
    /\ pc = "integrate"
    /\ integ.caller = "solve"
    /\ ~loop_guard(integ)
    /\ post' = solve_scalars(conditions, args.target_range_m, trajectory, post.zero_angle)
    /\ pc' = "correct"
    /\ UNCHANGED <<conditions, solver, args, zero, integ, trajectory, solution, outcome, query, peer,
                       users_file, calls>>

\* one pass of "for pt in trajectory" (solve 445-450): the sample is changed
\* in place
ApplyCorrection ==
    /\ pc = "correct"
    /\ ~corrections_done(post.corrected, trajectory)
    /\ trajectory' = [trajectory EXCEPT ![post.corrected + 1] =
                         corrected_point(conditions, trajectory[post.corrected + 1])]
    /\ post' = [post EXCEPT !.corrected = post.corrected + 1]
    /\ UNCHANGED <<conditions, solver, pc, args, zero, integ, solution, outcome, query, peer,
                       users_file, calls>>

\* a return that also stores the zero angle found in the conditions
SolveReturn_storing_zero ==
    /\ pc = "correct"
    /\ corrections_done(post.corrected, trajectory)
    /\ solution' = Some([trajectory |-> trajectory,
                         zero_angle_mrad |-> post.zero_angle,
                         spin_drift_m |-> post.spin_drift_m,
                         coriolis_vertical_m |-> post.coriolis_vertical_m,
                         coriolis_horizontal_m |-> post.coriolis_horizontal_m])
    /\ pc' = "done"
    /\ conditions' = [conditions EXCEPT !.elevation_angle_deg = post.zero_angle]
    /\ UNCHANGED <<solver, args, zero, integ, trajectory, post, outcome, query, peer,
                   users_file, calls>>

\* return BallisticSolution(...) (solve 452-458); zero_angle_mrad is the
\* angle in 10^-8 rad
SolveReturn ==
    /\ pc = "correct"
    /\ corrections_done(post.corrected, trajectory)
    /\ solution' = Some([trajectory |-> trajectory,
                         zero_angle_mrad |-> post.zero_angle,
                         spin_drift_m |-> post.spin_drift_m,
                         coriolis_vertical_m |-> post.coriolis_vertical_m,
                         coriolis_horizontal_m |-> post.coriolis_horizontal_m])
    /\ pc' = "done"
    /\ UNCHANGED <<conditions, solver, args, zero, integ, trajectory, post, outcome, query, peer,
                       users_file, calls>>

\* the ranges at which the returned Solution is queried
QueryRanges(traj) ==
    {0, conditions.rifle.zero_range_m, args.target_range_m, args.step_m \div 2}
    \cup {traj[i].range_m : i \in 1..Len(traj)}
    \cup {traj[i].range_m - 1 : i \in 1..Len(traj)}
    \cup {traj[i].range_m + 1 : i \in 1..Len(traj)}

\* solution.at_range(r); the caller holds the result
AtRange ==
    LET Result(r, res) ==
            query' = [op |-> "at_range", r |-> r, atm |-> standard,
                      kind |-> res.kind, val |-> res.val, err |-> res.err,
                      alias |-> res.alias]
    IN  /\ pc = "done"
        /\ \E r \in QueryRanges(solution[1].trajectory) :
              Result(r, at_range(solution[1].trajectory, r))
        /\ UNCHANGED <<conditions, solver, pc, args, zero, integ, trajectory, post,
                       solution, outcome, peer, users_file, calls>>

Terminal == {"done", "raised", "failed"}

\* atmosphere.density_ratio() on an Atmosphere object of the caller
DensityRatioCall ==
    LET Result(atm, res) ==
            query' = [op |-> "density_ratio", r |-> 0, atm |-> atm,
                      kind |-> IF res.ok THEN "float" ELSE "raise",
                      val |-> IF res.ok THEN <<res.val>> ELSE <<>>,
                      err |-> IF res.ok THEN "" ELSE res.err,
                      alias |-> FALSE]
    IN  /\ pc \in Terminal
        /\ \E atm \in Atmospheres : Result(atm, density_ratio(atm))
        /\ UNCHANGED <<conditions, solver, pc, args, zero, integ, trajectory, post,
                       solution, outcome, peer, users_file, calls>>

\* atmosphere.density_altitude_m() on an Atmosphere object of the caller
DensityAltitudeCall ==
    LET Result(atm, res) ==
            query' = [op |-> "density_altitude_m", r |-> 0, atm |-> atm,
                      kind |-> res.kind,
                      val |-> IF res.kind = "float" THEN <<res.val>> ELSE <<>>,
                      err |-> res.err, alias |-> FALSE]
    IN  /\ pc \in Terminal
        /\ \E atm \in Atmospheres : Result(atm, density_altitude_m(atm))
        /\ UNCHANGED <<conditions, solver, pc, args, zero, integ, trajectory, post,
                       solution, outcome, peer, users_file, calls>>

\* the caller keeps the Solution returned and makes a second solver, on the
\* same conditions with the wind turned by 180 degrees
SecondSolver ==
    /\ pc = "done"
    /\ peer = NoPeer
    /\ query = NoQuery
    /\ peer' = [role |-> "reversed", wind |-> conditions.wind, args |-> args,
                 solution |-> solution]
    /\ conditions' = reversed_wind(conditions)
    /\ solver' = NoSolver
    /\ pc' = "new"
    /\ args' = NoArgs
    /\ zero' = NoZero
    /\ integ' = NoInteg
    /\ trajectory' = <<>>
    /\ post' = NoPost
    /\ solution' = None
    /\ UNCHANGED <<outcome, query, users_file, calls>>

Next ==
    \/ Construct
    \/ SolveBegin
    \/ IntegrateStep
    \/ ZeroAdjust
    \/ SolveScan
    \/ ApplyCorrection
    \/ SolveReturn
    \/ AtRange
    \/ DensityRatioCall
    \/ DensityAltitudeCall

Spec == Init /\ [][Next]_vars

\* the same program on the inputs that run into the 10 s ceiling
SpecCeiling == InitWith(CeilingScenarios) /\ [][Next]_vars

\* the same program on the inputs with wind, each solved a second time with
\* the wind reversed
NextWind == Next \/ SecondSolver
SpecWind == InitWith(WindScenarios) /\ [][NextWind]_vars

\* the same program on the slow projectile
SpecSlow == InitWith(SlowScenarios) /\ [][Next]_vars


\* two solvers that differ in the twist direction only
TwistScenarios == {LowSight, [LowSight EXCEPT !.rifle.twist_direction = "left"]}

\* solver._spin_drift(time_s, range_m) on a constructed solver, for times of
\* flight of -0.5 s, 0 s, 0.025 s to 3 s and 10 s; the caller holds the result
SpinDriftCall ==
    /\ pc = "idle"
    /\ \E time_s \in {-50000000, 0, E9} \cup {k * 2500000 : k \in 1..120} :
          query' = [op |-> "_spin_drift", r |-> time_s, atm |-> standard, kind |-> "float",
                    val |-> <<spin_drift(conditions, time_s, conditions.rifle.zero_range_m)>>,
                    err |-> "", alias |-> FALSE]
    /\ UNCHANGED <<conditions, solver, pc, args, zero, integ, trajectory, post, solution,
                   outcome, peer, users_file, calls>>

\* the spin drift of right- and left-twist solvers
NextDrift == Construct \/ SpinDriftCall
SpecDrift == InitWith(TwistScenarios) /\ [][NextDrift]_vars

\* a second solver is constructed on conditions that differ from those of
\* the first in one input only: the twist rate (1:8 for 1:10), the
\* altitude of the atmosphere (1500 m for 0 m), the projectile length
\* (1.24 in for 1.0 in) or the elevation angle (10 degrees for 0); the
\* Solution and the call of the first solve are kept for comparison
VariedSolver ==
    LET varied(c) ==
            {[c EXCEPT !.rifle.twist_rate_inches = 8000],
             [c EXCEPT !.atmosphere = HighStandard],
             [c EXCEPT !.projectile.length_inches = 1240],
             [c EXCEPT !.elevation_angle_deg = 1000]}
    IN  /\ pc = "done"
        /\ peer = NoPeer
        /\ query = NoQuery
        /\ conditions.atmosphere = standard
        /\ peer' = [role |-> "varied", wind |-> conditions.wind, args |-> args,
                    solution |-> solution]
        /\ conditions' \in varied(conditions)
        /\ solver' = NoSolver
        /\ pc' = "new"
        /\ args' = NoArgs
        /\ zero' = NoZero
        /\ integ' = NoInteg
        /\ trajectory' = <<>>
        /\ post' = NoPost
        /\ solution' = None
        /\ UNCHANGED <<outcome, query, users_file, calls>>

\* solves on conditions that differ in an input the solver does not read
NextVaried == Next \/ VariedSolver
SpecVaried == InitWith({LowSight}) /\ [][NextVaried]_vars

\* the .308 load in a 5 m/s headwind (wind from 0 degrees)
HeadWind == Shooting(Bullet(None, Some(243)), RifleOf(850, 20, 5), standard,
                     [speed_mps |-> 5 * Micro, direction_deg |-> 0], 4170, 0)
SpecHead == InitWith({HeadWind}) /\ [][Next]_vars

\* ------------------------------------------------------------------------
\* auth.py: file-based accounts, called from the threads of the web app
\* ------------------------------------------------------------------------
\* username.lower() on the user names in use
lower(s) == IF s \in {"Bob", "BOB"} THEN "bob" ELSE s

\* hash_password(password, salt)[0] = sha256((password + salt).encode()).hexdigest(),
\* kept as the tagged text that was hashed (no two texts in use collide)
hash_password(password, salt) == <<"sha256", password \o salt>>

\* len(json.dumps(users, indent=2)), the bytes json.dump(users, f, indent=2)
\* writes: "{}" for no account; otherwise "{" and a newline, per account the
\* key line (8 bytes and the key), the username line (20 and the name), the
\* password_hash line (89: a sha256 hexdigest has 64 digits), the salt line
\* (48: token_hex(16) has 32 digits), the created_at line (21 and the text
\* of the time) and "  }" (3), then "," and a newline between accounts, and
\* a newline and "}" at the end
json_size(users) ==
    LET RECURSIVE entries(_)
        entries(keys) ==
            IF keys = {} THEN 0
            ELSE LET k == CHOOSE x \in keys : TRUE
                 IN  Len(k) + Len(users[k].username) + Len(users[k].created_at) + 189
                         + entries(keys \ {k})
    IN  IF DOMAIN users = {} THEN 2
        ELSE 2 + entries(DOMAIN users) + 2 * (Cardinality(DOMAIN users) - 1) + 2

\* _load_users(): the dict read from USERS_FILE; {} when the file does not
\* exist, and {} when json.load raises JSONDecodeError: the file has been
\* opened for writing (and so truncated) and not yet written, or the JSON
\* text at its start is followed by the rest of a longer text written
\* through another handle ("Extra data")
load_users ==
    IF users_file.state = "written" /\ users_file.size = json_size(users_file.users)
    THEN users_file.users
    ELSE <<>>

\* create_user(username, password), lines 85-97: the argument checks, then
\* _load_users() and the test username.lower() in users; the call returns
\* its failure, or goes on with the dict it has loaded
CreateUserCheck ==
    \E p \in DOMAIN calls, username \in {"", "al", "amy", "bob", "Bob"},
       password \in {"", "abc", "pw12"} :
        LET Call(at, users, ok, message) ==
                calls' = [calls EXCEPT ![p] =
                             [op |-> "create_user", pc |-> at, username |-> username,
                              password |-> password, users |-> users, stored |-> <<>>,
                              ok |-> ok, message |-> message]]
            Loaded(users) ==
                IF lower(username) \in DOMAIN users
                THEN Call("idle", <<>>, FALSE, "Username already exists")
                ELSE Call("loaded", users, FALSE, "")
        IN  /\ calls[p].pc = "idle"
            /\ IF username = "" \/ password = ""
               THEN Call("idle", <<>>, FALSE, "Username and password are required")
               ELSE IF Len(username) < 3
               THEN Call("idle", <<>>, FALSE, "Username must be at least 3 characters")
               ELSE IF Len(password) < 4
               THEN Call("idle", <<>>, FALSE, "Password must be at least 4 characters")
               ELSE Loaded(load_users)
            /\ UNCHANGED <<conditions, solver, pc, args, zero, integ, trajectory, post,
                           solution, outcome, query, peer, users_file>>

\* create_user, lines 100-111 and _save_users up to open(USERS_FILE, 'w'):
\* the password is hashed with a fresh salt (secrets.token_hex), the account
\* is put into the loaded dict with created_at = datetime.now().isoformat(),
\* and the file is opened, which truncates it.  isoformat() gives 26
\* characters, and 19 (no fraction) when the microsecond of the time is 0.
CreateUserSave ==
    \E p \in DOMAIN calls,
       fresh \in {<<"5f", "2026-10-31T09:15:42.000317">>,
                  <<"c4", "2026-10-31T09:15:42.000317">>,
                  <<"c4", "2026-10-31T09:15:43">>} :
        LET salt == fresh[1]
            created_at == fresh[2]
            Put(users, key, account) ==
                [k \in DOMAIN users \cup {key} |-> IF k = key THEN account ELSE users[k]]
            Account(password_hash) ==
                [username |-> calls[p].username, password_hash |-> password_hash,
                 salt |-> salt, created_at |-> created_at]
        IN  /\ calls[p].pc = "loaded"
            /\ calls' = [calls EXCEPT
                            ![p].pc = "saving",
                            ![p].stored = <<Account(hash_password(calls[p].password, salt))>>,
                            ![p].users = Put(calls[p].users, lower(calls[p].username),
                                             Account(hash_password(calls[p].password, salt)))]
            /\ users_file' = [state |-> "truncated", users |-> <<>>, size |-> 0]
            /\ UNCHANGED <<conditions, solver, pc, args, zero, integ, trajectory, post,
                           solution, outcome, query, peer>>

\* _save_users, lines 55-56, and create_user, line 113: json.dump writes the
\* dict of this call, the file is closed, the call returns success.  The
\* handle was opened at offset 0 and the write does not truncate: the text
\* goes over the start of what the file holds, and bytes that another
\* handle wrote beyond its end stay in the file.
SaveWrite ==
    \E p \in DOMAIN calls :
        /\ calls[p].pc = "saving"
        /\ users_file' = [state |-> "written", users |-> calls[p].users,
                          size |-> Max2(users_file.size, json_size(calls[p].users))]
        /\ calls' = [calls EXCEPT ![p].pc = "idle", ![p].ok = TRUE,
                                  ![p].message = "Account created successfully"]
        /\ UNCHANGED <<conditions, solver, pc, args, zero, integ, trajectory, post,
                       solution, outcome, query, peer>>

\* authenticate_user(username, password), lines 116-135
AuthenticateUser ==
    \E p \in DOMAIN calls, username \in {"", "amy", "bob", "BOB"},
       password \in {"", "abc", "pw12"} :
        LET Call(ok, message) ==
                calls' = [calls EXCEPT ![p] =
                             [op |-> "authenticate_user", pc |-> "idle",
                              username |-> username, password |-> password,
                              users |-> <<>>, stored |-> <<>>,
                              ok |-> ok, message |-> message]]
            Verified(users) ==
                IF lower(username) \notin DOMAIN users
                THEN Call(FALSE, "Invalid username or password")
                ELSE IF hash_password(password, users[lower(username)].salt)
                           = users[lower(username)].password_hash
                THEN Call(TRUE, "Login successful")
                ELSE Call(FALSE, "Invalid username or password")
        IN  /\ calls[p].pc = "idle"
            /\ IF username = "" \/ password = ""
               THEN Call(FALSE, "Username and password are required")
               ELSE Verified(load_users)
            /\ UNCHANGED <<conditions, solver, pc, args, zero, integ, trajectory, post,
                           solution, outcome, query, peer, users_file>>

\* the account functions called from two threads
NextAuth == CreateUserCheck \/ CreateUserSave \/ SaveWrite \/ AuthenticateUser
SpecAuth == InitWith({LowSight}) /\ [][NextAuth]_vars

\* ------------------------------------------------------------------------
\* Properties
\* ------------------------------------------------------------------------
\* C1 (as stated): once the constructor has run on a projectile with neither
\* or both ballistic coefficients populated, it has ended in the
\* configuration error (ValueError) and no integration step was executed.
C1_NeitherOrBothIsConfigError ==
    LET BothSet(p) == p.bc_g1 # None /\ p.bc_g7 # None
        NeitherSet(p) == p.bc_g1 = None /\ p.bc_g7 = None
    IN  (pc # "new" /\ (BothSet(conditions.projectile) \/ NeitherSet(conditions.projectile)))
            => (pc = "failed" /\ outcome = "ValueError"
                /\ integ = NoInteg /\ trajectory = <<>>)

\* C2 (as stated): with zero wind and latitude 0, at_range(zero range) of the
\* returned Solution is a point whose drop_m is minus the sight height
\* within 1 mm.
C2_DropAtZeroRangeIsSightHeight ==
    (/\ query.op = "at_range"
     /\ query.r = conditions.rifle.zero_range_m
     /\ conditions.wind.speed_mps = 0
     /\ conditions.latitude_deg = 0)
        => (/\ query.kind = "point"
            /\ Abs(query.val[1].drop_m + sight_height_m(conditions.rifle)) <= 1000)

\* C3: in the trajectory under construction and in the trajectory of the
\* returned Solution every sample has a strictly greater range and a
\* strictly greater time of flight than the sample before it.
C3_RangeAndTimeStrictlyIncrease ==
    LET Increasing(traj) ==
            \A i \in 1..(Len(traj) - 1) :
                /\ traj[i].range_m < traj[i + 1].range_m
                /\ traj[i].time_s < traj[i + 1].time_s
    IN  /\ Increasing(trajectory)
        /\ solution # None => Increasing(solution[1].trajectory)

\* a Solution with at least three samples has been returned
C3_Witness == pc = "done" /\ solution # None /\ Len(solution[1].trajectory) >= 3

\* C4: the integration loop never makes more than 10 s / dt passes (one more
\* for the rounding of the accumulated t), every pass made started with the
\* distance below the maximum range and the time below the ceiling, and no
\* sample is later than 10 s plus one step.
C4_LoopStopsAtRangeOrCeiling ==
    /\ integ.t <= MaxFlightSeconds * TicksPerSecond + AccumulationSlack
    /\ integ.t > 0 =>
          /\ integ.x + ((integ.xr - integ.vx) \div TicksPerSecond) < integ.max_range_m
          /\ BelowCeiling(integ.t - DtTicks)
    /\ \A i \in 1..Len(trajectory) :
          trajectory[i].time_s <= (MaxFlightSeconds * TicksPerSecond + DtTicks) * TickE8

\* the loop has been stopped by the ceiling, short of the maximum range
C4_Witness ==
    /\ pc = "integrate"
    /\ integ.t = MaxFlightSeconds * TicksPerSecond + AccumulationSlack
    /\ integ.x < integ.max_range_m
    /\ ~loop_guard(integ)

\* C5: at_range(r) returns None and raises nothing when r is below the first
\* sample's range or above the last sample's range, and for every r when the
\* trajectory is empty.
C5_OutsideSpanReturnsNone ==
    LET Outside(traj, r) ==
            \/ Len(traj) = 0
            \/ r < traj[1].range_m
            \/ r > traj[Len(traj)].range_m
    IN  (query.op = "at_range" /\ Outside(solution[1].trajectory, query.r))
            => (query.kind = "None" /\ query.err = "")

\* a trajectory of one sample has been queried beyond that sample
C5_Witness ==
    /\ query.op = "at_range"
    /\ Len(solution[1].trajectory) = 1
    /\ query.r > solution[1].trajectory[1].range_m
    /\ query.kind = "None"

\* C6 (as stated): at_range(s.range_m) for a sample s of the Solution's
\* trajectory (first, interior, last or the only one) returns a point whose
\* seven fields equal those of s.
C6_SampleRangeReturnsSample ==
    LET Samples(traj, r) == {i \in 1..Len(traj) : traj[i].range_m = r}
    IN  (query.op = "at_range" /\ Samples(solution[1].trajectory, query.r) # {})
            => (/\ query.kind = "point"
                /\ \E i \in Samples(solution[1].trajectory, query.r) :
                      query.val[1] = solution[1].trajectory[i])

\* C7: solve never leaves a partly built Solution: a call that raised has
\* returned none, and a returned Solution holds the whole trajectory with
\* every sample corrected (in calm air the windage of a sample is its spin
\* drift plus its horizontal Coriolis deflection), the zero angle of the
\* search and the three scalars of the target point.
C7_NoPartialSolution ==
    LET Corrected(traj) ==
            \A i \in 1..Len(traj) :
                traj[i].windage_m =
                    spin_drift(conditions, traj[i].time_s, traj[i].range_m)
                    + coriolis_effect(conditions, traj[i].time_s, traj[i].range_m)[2]
        Whole(sol) ==
            /\ pc = "done" /\ outcome = ""
            /\ post.corrected = Len(trajectory)
            /\ sol.trajectory = trajectory
            /\ conditions.wind.speed_mps = 0 => Corrected(sol.trajectory)
            /\ sol.zero_angle_mrad = zero.angle_guess
            /\ [post EXCEPT !.corrected = 0] =
                   solve_scalars(conditions, args.target_range_m, sol.trajectory,
                                 zero.angle_guess)
            /\ sol.spin_drift_m = post.spin_drift_m
            /\ sol.coriolis_vertical_m = post.coriolis_vertical_m
            /\ sol.coriolis_horizontal_m = post.coriolis_horizontal_m
    IN  /\ outcome # "" => solution = None
        /\ solution # None => Whole(solution[1])

\* a Solution whose target point exists and whose samples were corrected
C7_Witness ==
    /\ solution # None
    /\ post.target_pt > 0
    /\ post.corrected >= 2
    /\ solution[1].spin_drift_m > 0

\* C8 (as stated): the zero-angle search raises nothing, also when the
\* integrated trajectory never reaches the zero range, and after ten
\* updates without convergence the angle it returns is the guess it holds
\* after the tenth.
C8_ZeroSearchNeverRaises ==
    /\ integ.caller = "zero" => pc # "raised"
    /\ (integ.caller = "solve" /\ zero.iterations = ZeroIterations)
          => integ.bore_angle = zero.angle_guess

\* C9 (as stated): density_altitude_m() on an atmosphere whose density ratio
\* is negative raises nothing and returns conditions.altitude_m.
C9_NegativeRatioReturnsAltitude ==
    (/\ query.op = "density_altitude_m"
     /\ DensityRatioMemo[query.atm].ok
     /\ DensityRatioMemo[query.atm].val < 0)
        => (query.kind = "float" /\ query.val = <<query.atm.altitude_m>>)

\* C10 (as stated): density_ratio() of the standard atmosphere differs from
\* 1.0 by less than 1e-9 (one unit of the ratio held in 10^-9).
C10_StandardRatioIsOne ==
    (query.op = "density_ratio" /\ query.atm = standard)
        => (query.kind = "float" /\ Abs(query.val[1] - E9) < 1)

\* C11: no step of solve changes the conditions held by the solver
\* (projectile, rifle, atmosphere, wind, latitude, azimuth) or the solver's
\* drag model and ballistic coefficient: from the call to the return they
\* keep the values they had before the call.
C11_SolveLeavesInputs ==
    [][(pc \in {"idle", "integrate", "correct"})
          => (conditions' = conditions /\ solver' = solver)]_vars

\* solve has returned on the solver built for the 90 mm sight
C11_Witness ==
    /\ pc = "done" /\ solution # None
    /\ conditions = HighSight
    /\ solver = [drag_model |-> "G7", bc |-> 243]

\* C12: a query never changes the Solution: once solve has returned, every
\* step made while the caller holds the Solution (any sequence of at_range
\* calls) leaves the trajectory's samples and the scalars of the Solution as
\* they were, and the point a query returns is a new object, not one of the
\* trajectory's samples.
C12_AtRangeLeavesSolution ==
    [][(pc = "done" /\ pc' = "done")
          => (/\ solution' = solution
              /\ trajectory' = trajectory
              /\ query'.op = "at_range" => ~query'.alias)]_vars

\* a query at the range of the first sample has returned a point
C12_Witness ==
    /\ query.op = "at_range" /\ query.kind = "point"
    /\ query.r = solution[1].trajectory[1].range_m
    /\ ~query.alias

\* the lateral position the integration gave a returned sample: its windage
\* before solve added the spin drift and the horizontal Coriolis term
lateral_m(c, pt) ==
    pt.windage_m - (spin_drift(c, pt.time_s, pt.range_m)
                    + coriolis_effect(c, pt.time_s, pt.range_m)[2])

\* two returned trajectories mirror each other: sample by sample the lateral
\* positions are opposite and drop, time, speed, energy and Mach are equal
mirrored(c, ta, tb) ==
    /\ Len(ta) = Len(tb)
    /\ \A i \in 1..Len(ta) :
          /\ lateral_m(c, ta[i]) = -lateral_m(c, tb[i])
          /\ ta[i].drop_m = tb[i].drop_m
          /\ ta[i].time_s = tb[i].time_s
          /\ ta[i].velocity_mps = tb[i].velocity_mps
          /\ ta[i].energy_j = tb[i].energy_j
          /\ ta[i].mach = tb[i].mach

\* both solves of a pair have returned, and they were the same call
PairSolved == pc = "done" /\ peer.role = "reversed" /\ peer.args = args

\* C13 (as stated): two solves that differ only in a wind direction turned by
\* 180 degrees return trajectories that mirror each other: opposite lateral
\* positions, equal drop, time, speed, energy and Mach at every sample.
C13_ReversedWindMirrors ==
    PairSolved => mirrored(conditions, peer.solution[1].trajectory, solution[1].trajectory)

\* C13 (amended): the two trajectories mirror each other when the wind blows
\* across the line of fire (its headwind component is zero, direction 90 or
\* 270 degrees); turning any other wind by 180 degrees also exchanges head-
\* and tailwind, which changes the drag and with it drop, time and speed.
C13_CrosswindReversalMirrors ==
    (PairSolved /\ headwind_component(conditions.wind) = 0)
        => mirrored(conditions, peer.solution[1].trajectory, solution[1].trajectory)

\* the second solve of a pure crosswind pair has returned a trajectory of
\* ten or more samples that the wind has pushed sideways
C13_Witness ==
    /\ PairSolved
    /\ peer.wind = [speed_mps |-> 5 * Micro, direction_deg |-> 9000]
    /\ conditions.wind = [speed_mps |-> 5 * Micro, direction_deg |-> 27000]
    /\ Len(solution[1].trajectory) >= 10
    /\ lateral_m(conditions, solution[1].trajectory[10]) < 0
    /\ lateral_m(conditions, peer.solution[1].trajectory[10]) > 0

\* v_total of line 368 on the locals it: the speed a sample records
speed_of(it) == Hypot(it.vx, it.vy, it.vz)

\* drag_acc of line 374 on the locals it, for the speed v relative to the air
drag_acc(c, s, v) == MulE8(drag_per_speed(c, s, v, mach_number(c.atmosphere, v).val), v)

\* a pass of the final integration loop of solve has been made without wind
CalmPass ==
    /\ pc = "integrate" /\ pc' = "integrate"
    /\ integ.caller = "solve"
    /\ integ'.t = integ.t + DtTicks
    /\ conditions.wind.speed_mps = 0

\* the speed v_new after a pass is at most the speed v before it less
\* (drag_acc + g * vy_new / v_new) * dt, 4 um/s allowed for rounding;
\* g * vy / v is the deceleration gravity gives a projectile that climbs
\* with the vertical velocity vy at the speed v
speed_bounded(c, s, v, vy_new, v_new) ==
    v_new <= v + 4 - RoundDiv(drag_acc(c, s, v) + MulDiv(GRAVITY, vy_new, Max2(v_new, 1)),
                              TicksPerSecond)

\* C14 (as stated): with zero wind the speed recorded in the samples of the
\* trajectory never increases from one sample to the next.
C14_SpeedNonIncreasing ==
    conditions.wind.speed_mps = 0
        => \A i \in 1..(Len(trajectory) - 1) :
               trajectory[i + 1].velocity_mps <= trajectory[i].velocity_mps

\* C14 (amended): with zero wind a pass of the integration loop changes the
\* speed by at most -(drag_acc + g * sin(climb)) * dt, climb being the angle
\* of the new velocity above the horizontal (4 um/s allowed for rounding):
\* the speed falls in every pass in which the drag deceleration exceeds g
\* times the sine of the angle of descent, and a projectile that descends
\* more steeply gains speed, never faster than gravity along its path gives.
C14_SpeedGainBoundedByGravity ==
    [][CalmPass => speed_bounded(conditions, solver, speed_of(integ),
                                 integ'.vy, speed_of(integ'))]_vars

\* the slow projectile has been recorded faster at a sample than at the one
\* before it, on a calm day
C14_Witness ==
    /\ conditions = SlowFlat
    /\ pc = "integrate" /\ integ.caller = "solve"
    /\ Len(trajectory) >= 5
    /\ trajectory[5].velocity_mps > trajectory[4].velocity_mps
    /\ drag_acc(conditions, solver, speed_of(integ)) < GRAVITY

\* C16: the correction loop of solve starts on the samples as the final
\* integration left them, each of its passes adds to the next sample, and to
\* no other, the spin drift at that sample's time and the horizontal Coriolis
\* term at its range and time (windage) and the vertical Coriolis term
\* (drop), and solve returns the list when every sample has been visited:
\* each returned sample carries each correction exactly once.
C16_CorrectionsOncePerSample ==
    [][LET Own(pt) == coriolis_effect(conditions, pt.time_s, pt.range_m)
           Corrected(pt) ==
               [pt EXCEPT !.windage_m = pt.windage_m
                                          + spin_drift(conditions, pt.time_s, pt.range_m)
                                          + Own(pt)[2],
                          !.drop_m = pt.drop_m + Own(pt)[1]]
       IN  /\ (pc = "integrate" /\ pc' = "correct")
                 => (post'.corrected = 0 /\ trajectory' = trajectory)
           /\ (pc = "correct" /\ pc' = "correct")
                 => (/\ post'.corrected = post.corrected + 1
                     /\ post'.corrected <= Len(trajectory)
                     /\ trajectory' = [i \in 1..Len(trajectory) |->
                                          IF i = post'.corrected
                                          THEN Corrected(trajectory[i])
                                          ELSE trajectory[i]])
           /\ (pc = "correct" /\ pc' = "done")
                 => (/\ post.corrected = Len(trajectory)
                     /\ solution'[1].trajectory = trajectory)]_vars

\* solve has returned samples whose drop and windage differ from the
\* integrated position by non-zero Coriolis terms and a non-zero spin drift
C16_Witness ==
    /\ pc = "done" /\ conditions = QuarterWind
    /\ post.corrected = Len(solution[1].trajectory)
    /\ Len(solution[1].trajectory) >= 10
    /\ coriolis_effect(conditions, solution[1].trajectory[10].time_s,
                       solution[1].trajectory[10].range_m)[1] > 0
    /\ coriolis_effect(conditions, solution[1].trajectory[10].time_s,
                       solution[1].trajectory[10].range_m)[2] > 0
    /\ spin_drift(conditions, solution[1].trajectory[10].time_s,
                  solution[1].trajectory[10].range_m) > 0

\* C17: a pass of the integration loop appends a sample exactly when the
\* downrange distance it has reached is at least the sampling step beyond
\* the range of the last sample (beyond 0 before the first one), and the
\* sample carries that distance; so the first range is at least the step
\* and consecutive ranges differ by at least the step.
C17_SampleEveryStep ==
    [][LET Spaced(traj, it) ==
               /\ it.last_x = (IF traj = <<>> THEN 0 ELSE traj[Len(traj)].range_m)
               /\ \A i \in 1..Len(traj) :
                     traj[i].range_m >= (IF i = 1 THEN 0 ELSE traj[i - 1].range_m) + it.step_m
           Due == integ'.x >= integ.last_x + integ.step_m
       IN  (pc' = "integrate")
               => (/\ Spaced(trajectory', integ')
                   /\ (pc = "integrate" /\ integ'.t = integ.t + DtTicks)
                         => (/\ Due => (/\ Len(trajectory') = Len(trajectory) + 1
                                         /\ SubSeq(trajectory', 1, Len(trajectory)) = trajectory
                                         /\ trajectory'[Len(trajectory')].range_m = integ'.x)
                             /\ ~Due => trajectory' = trajectory))]_vars

\* the final integration has recorded two samples or more and has since made
\* passes that were not yet a step beyond the last of them
C17_Witness ==
    /\ pc = "integrate" /\ integ.caller = "solve"
    /\ Len(trajectory) >= 2
    /\ integ.last_x = trajectory[Len(trajectory)].range_m
    /\ integ.x > integ.last_x
    /\ integ.x < integ.last_x + integ.step_m
    /\ trajectory[2].range_m - trajectory[1].range_m >= integ.step_m

\* the pass from the locals it to the locals it2 has taken <<rx, ry, rz>> for
\* the velocity relative to the air: the drag deceleration is that of its
\* magnitude and acts against its direction, and a sample appended in the
\* pass records the Mach number of its magnitude
pass_relative_to(c, s, it, it2, traj, traj2, rx, ry, rz) ==
    LET Moved(to) == <<it2.vx, it2.vxr, it2.vy, it2.vyr, it2.vz, it2.vzr>>
                        = <<to.vx, to.vxr, to.vy, to.vyr, to.vz, to.vzr>>
        Dragged(mach, rate) ==
            /\ Moved(step_velocity(it, -MulE8(rate, rx), -MulE8(rate, ry) - GRAVITY,
                                   -MulE8(rate, rz)))
            /\ Len(traj2) > Len(traj) => traj2[Len(traj2)].mach = mach
        Through(v, mach) == Dragged(mach, drag_per_speed(c, s, v, mach))
        At(v) == Through(v, mach_number(c.atmosphere, v).val)
    IN  At(Hypot(rx, ry, rz))

\* C18 (as stated): in every pass the velocity relative to the air is
\* <<vx - headwind component, vy, vz - crosswind component>>.
C18_WindComponentsSubtracted ==
    [][(pc = "integrate" /\ pc' = "integrate" /\ integ'.t = integ.t + DtTicks)
       => pass_relative_to(conditions, solver, integ, integ', trajectory, trajectory',
                                    integ.vx - headwind_component(conditions.wind),
                                    integ.vy,
                                    integ.vz - crosswind_component(conditions.wind))]_vars

\* C18 (amended): in every pass the velocity relative to the air is
\* <<vx + headwind component, vy, vz - crosswind component>>: the headwind
\* component is added to the along-track velocity (the air moves against
\* the shot at that speed), the crosswind component is subtracted from the
\* lateral velocity, and the vertical velocity is taken as it is.
C18_HeadwindAddedCrosswindSubtracted ==
    [][(pc = "integrate" /\ pc' = "integrate" /\ integ'.t = integ.t + DtTicks)
       => pass_relative_to(conditions, solver, integ, integ', trajectory, trajectory',
                                    integ.vx + headwind_component(conditions.wind),
                                    integ.vy,
                                    integ.vz - crosswind_component(conditions.wind))]_vars

\* passes have been made in a wind with a headwind and a crosswind component,
\* a sample has been recorded and the projectile drifts
C18_Witness ==
    /\ pc = "integrate" /\ integ.caller = "solve"
    /\ headwind_component(conditions.wind) > 3 * Micro
    /\ crosswind_component(conditions.wind) > 3 * Micro
    /\ integ.wind_x = -headwind_component(conditions.wind)
    /\ integ.vz # 0
    /\ Len(trajectory) >= 1

\* C19: the zero search integrates at most 10 times (an integration for the
\* search is only ever running with fewer than 10 passes counted), the pass
\* in which |drop at the zero range + sight height| < 0.0001 m is the last
\* one (the next integration is the final one of solve), and the search is
\* not resumed once it has returned.  error = -drop_at_zero - sight_height is
\* read from the samples of the integration that has just returned.
C19_ZeroSearchStopsWhenConverged ==
    [][LET ZeroIteration ==
               /\ pc = "integrate"
               /\ integ.caller = "zero"
               /\ zero'.iterations = zero.iterations + 1
           measured_error(traj, i) ==
               -(IF i > 0 THEN traj[i].drop_m ELSE traj[Len(traj)].drop_m)
               - sight_height_m(conditions.rifle)
           Stops(error) ==
               /\ zero'.error = error
               /\ Abs(error) < ZeroTolerance =>
                     /\ pc' = "integrate"
                     /\ integ'.caller = "solve"
                     /\ integ'.t = 0
       IN  /\ (pc' = "integrate" /\ integ'.caller = "zero") => zero'.iterations < ZeroIterations
           /\ ZeroIteration =>
                 Stops(measured_error(trajectory,
                                      first_at_or_past(trajectory, zero.target_range_m)))
           /\ (pc \in {"integrate", "correct"} /\ integ.caller = "solve") =>
                 ~(pc' = "integrate" /\ integ'.caller = "zero")]_vars

\* the search has stopped before its tenth pass because the discrepancy fell
\* below the tolerance, and the final integration has begun
C19_Witness ==
    /\ pc = "integrate"
    /\ integ.caller = "solve"
    /\ integ.t = 0
    /\ zero.iterations > 1
    /\ zero.iterations < ZeroIterations
    /\ Abs(zero.error) < ZeroTolerance

\* C20: the spin drift and the two Coriolis scalars of a returned Solution
\* are _spin_drift and _coriolis_effect at the requested target range and
\* the time of the first sample whose range is at or past it; all three
\* are 0 when no sample is at or past the target range
C20_ScalarsAtTargetRange ==
    pc = "done" =>
        LET sol == solution[1]
            traj == sol.trajectory
            r == args.target_range_m
            First(i) == traj[i].range_m >= r /\ \A j \in 1..(i - 1) : traj[j].range_m < r
            Scalars(sd, cor) ==
                /\ sol.spin_drift_m = sd
                /\ sol.coriolis_vertical_m = cor[1]
                /\ sol.coriolis_horizontal_m = cor[2]
        IN  /\ \A i \in 1..Len(traj) :
                  First(i) => Scalars(spin_drift(conditions, traj[i].time_s, r),
                                      coriolis_effect(conditions, traj[i].time_s, r))
            /\ (\A i \in 1..Len(traj) : traj[i].range_m < r) => Scalars(0, <<0, 0>>)

\* a Solution has been returned whose second sample is the first at or past
\* the target range, with all three scalars different from 0
C20_Witness ==
    /\ pc = "done"
    /\ Len(solution[1].trajectory) > 2
    /\ solution[1].trajectory[1].range_m < args.target_range_m
    /\ solution[1].trajectory[2].range_m > args.target_range_m
    /\ solution[1].spin_drift_m > 0
    /\ solution[1].coriolis_vertical_m > 0
    /\ solution[1].coriolis_horizontal_m > 0

\* C21 (as stated): when the final integration of solve has reached
\* max(target + 100, zero range + 100), the last sample of the Solution is at
\* or past the target range, and at_range(target range) returns a point
\* whenever the target range is not below the first sample's range, whatever
\* the sampling step.
C21_SampledSpanCoversTarget ==
    (pc = "done" /\ integ.caller = "solve" /\ integ.x >= integ.max_range_m) =>
        LET traj == solution[1].trajectory
        IN  /\ Len(traj) > 0
            /\ traj[Len(traj)].range_m >= args.target_range_m
            /\ (/\ query.op = "at_range"
                /\ query.r = args.target_range_m
                /\ query.r >= traj[1].range_m) => query.kind = "point"

\* C22: for r strictly between the ranges of two consecutive samples,
\* at_range(r) returns a point of range exactly r whose six other fields
\* are a + w * (b - a) of the two samples' fields a and b, all with the one
\* weight w = (r - r_i) / (r_{i+1} - r_i), 0 <= w <= 1, so that every field
\* lies between the two samples' values
C22_LinearInterpolationBetweenSamples ==
    LET traj == solution[1].trajectory
        Within(v, a, b) == Min2(a, b) <= v /\ v <= Max2(a, b)
        Lerp(w, v, a, b) == v = a + MulE8(w, b - a) /\ Within(v, a, b)
        Weighted(w, p, lo, hi) ==
            /\ 0 <= w /\ w <= E8
            /\ p.range_m = query.r
            /\ Lerp(w, p.time_s, lo.time_s, hi.time_s)
            /\ Lerp(w, p.drop_m, lo.drop_m, hi.drop_m)
            /\ Lerp(w, p.windage_m, lo.windage_m, hi.windage_m)
            /\ Lerp(w, p.velocity_mps, lo.velocity_mps, hi.velocity_mps)
            /\ Lerp(w, p.energy_j, lo.energy_j, hi.energy_j)
            /\ Lerp(w, p.mach, lo.mach, hi.mach)
    IN  query.op = "at_range" =>
            \A i \in 1..(Len(traj) - 1) :
                (traj[i].range_m < query.r /\ query.r < traj[i + 1].range_m) =>
                    /\ query.kind = "point"
                    /\ Weighted(DivE8(query.r - traj[i].range_m,
                                      traj[i + 1].range_m - traj[i].range_m),
                                query.val[1], traj[i], traj[i + 1])

\* a range well inside the gap between two samples has been asked for and
\* the point returned lies strictly between them in time and in drop
C22_Witness ==
    /\ query.op = "at_range"
    /\ query.kind = "point"
    /\ \E i \in 1..(Len(solution[1].trajectory) - 1) :
          /\ solution[1].trajectory[i].range_m + Micro < query.r
          /\ query.r + 1000 < solution[1].trajectory[i + 1].range_m
          /\ solution[1].trajectory[i].time_s < query.val[1].time_s
          /\ query.val[1].time_s < solution[1].trajectory[i + 1].time_s
          /\ solution[1].trajectory[i].drop_m > query.val[1].drop_m
          /\ query.val[1].drop_m > solution[1].trajectory[i + 1].drop_m

\* C23: every pass of the integration loop advances t by dt = 0.0001 s and
\* moves the position by the velocity the pass has just computed: x after
\* the pass is x before it plus (vx after the pass) * dt, and likewise y
\* and z (positions with their carried fractions, in 10^-4 micrometres)
C23_PositionAdvancesByUpdatedVelocity ==
    [][LET Pass ==
               /\ pc = "integrate"
               /\ pc' = "integrate"
               /\ integ' # integ
               /\ ~(integ'.t = 0 /\ integ'.x = 0 /\ integ'.last_x = 0)
           Moved(p, pr, p2, pr2, v2) == (p2 - p) * TicksPerSecond + (pr2 - pr) = v2
       IN  Pass =>
               /\ integ'.t = integ.t + DtTicks
               /\ Moved(integ.x, integ.xr, integ'.x, integ'.xr, integ'.vx)
               /\ Moved(integ.y, integ.yr, integ'.y, integ'.yr, integ'.vy)
               /\ Moved(integ.z, integ.zr, integ'.z, integ'.zr, integ'.vz)]_vars

\* passes have been made in which all three velocity components changed
C23_Witness ==
    /\ pc = "integrate"
    /\ integ.t >= 2 * DtTicks
    /\ integ.x > 0
    /\ integ.vx < MulE8(conditions.rifle.muzzle_velocity_mps, cos(integ.bore_angle))
    /\ integ.vy < 0
    /\ integ.vz # 0
    /\ integ.z # 0

\* C24: at every time of flight the spin drift of a solver is the negation
\* of the spin drift of the solver that differs from it in the twist
\* direction only (left against right), and it is 0 when the time of flight
\* is not positive
C24_LeftTwistNegatesSpinDrift ==
    LET opposite(c) ==
            [c EXCEPT !.rifle.twist_direction = IF @ = "left" THEN "right" ELSE "left"]
    IN  query.op = "_spin_drift" =>
            /\ query.val[1] = -spin_drift(opposite(conditions), query.r,
                                          conditions.rifle.zero_range_m)
            /\ conditions.rifle.twist_direction = "left" => query.val[1] <= 0
            /\ conditions.rifle.twist_direction = "right" => query.val[1] >= 0
            /\ query.r <= 0 => query.val[1] = 0

\* the left-twist solver has returned a drift to the left
C24_Witness ==
    /\ query.op = "_spin_drift"
    /\ conditions.rifle.twist_direction = "left"
    /\ query.r > 0
    /\ query.val[1] < -1000

\* C25: two solves with the same target range and step on conditions that
\* differ only in the twist rate, only in the altitude of the atmosphere,
\* only in the projectile length or only in the elevation angle return
\* identical Solutions
C25_SolutionIgnoresTwistRate ==
    (pc = "done" /\ peer.role = "varied" /\ peer.args = args) => solution = peer.solution

\* the second solve, on a rifle with another twist rate, has returned a
\* Solution with samples and a spin drift
C25_Witness ==
    /\ pc = "done"
    /\ peer.role = "varied"
    /\ peer.args = args
    /\ conditions.rifle.twist_rate_inches # RifleOf(850, 20, 5).twist_rate_inches
    /\ Len(solution[1].trajectory) > 2
    /\ solution[1].spin_drift_m > 0
    /\ solution[1].trajectory[Len(solution[1].trajectory)].windage_m > 0

\* C26: with a crosswind component of zero the lateral position z and the
\* lateral velocity vz of the integration are 0 in every state, and so is
\* the windage of every sample recorded, before spin drift and Coriolis are
\* added to it
C26_NoLateralMotionWithoutCrosswind ==
    crosswind_component(conditions.wind) = 0 =>
        /\ integ.z = 0 /\ integ.zr = 0
        /\ integ.vz = 0 /\ integ.vzr = 0
        /\ pc = "integrate" => \A i \in 1..Len(trajectory) : trajectory[i].windage_m = 0

\* the final integration in a pure headwind has recorded samples while the
\* projectile slowed down and fell
C26_Witness ==
    /\ pc = "integrate"
    /\ integ.caller = "solve"
    /\ conditions.wind.speed_mps > 0
    /\ crosswind_component(conditions.wind) = 0
    /\ integ.wind_x < 0
    /\ Len(trajectory) >= 2
    /\ integ.vy < 0
    /\ integ.vx < MulE8(conditions.rifle.muzzle_velocity_mps, cos(integ.bore_angle))

\* C27: every pass of the zero search, the converged one included, adds
\* 0.5 * atan(error / zero range) to the angle guess before the test
\* abs(error) < 0.0001 is made, so the angle handed to the final integration
\* and returned in the Solution is the angle after that update and not the
\* angle whose trajectory was measured
C27_AngleUpdatedBeforeConvergenceTest ==
    [][LET ZeroIteration ==
               /\ pc = "integrate"
               /\ integ.caller = "zero"
               /\ zero'.iterations = zero.iterations + 1
           measured_error(traj, i) ==
               -(IF i > 0 THEN traj[i].drop_m ELSE traj[Len(traj)].drop_m)
               - sight_height_m(conditions.rifle)
           Updated(half) ==
               /\ zero'.angle_guess = integ.bore_angle + half
               /\ integ'.bore_angle = integ.bore_angle + half
               /\ integ'.caller = "solve" => post'.zero_angle = integ.bore_angle + half
           Damped(error) ==
               Updated(MulE8(atan_ratio(error, zero.target_range_m).val, E8 \div 2))
       IN  /\ ZeroIteration =>
                 Damped(measured_error(trajectory,
                                       first_at_or_past(trajectory, zero.target_range_m)))
           /\ (pc = "correct" /\ pc' = "done") =>
                 solution'[1].zero_angle_mrad = zero.angle_guess]_vars

\* the search has converged with an error of more than 0.05 mm, and the
\* final integration starts at the angle after the last update
C27_Witness ==
    /\ pc = "integrate"
    /\ integ.caller = "solve"
    /\ integ.t = 0
    /\ Abs(zero.error) < ZeroTolerance
    /\ Abs(zero.error) > 50
    /\ MulE8(atan_ratio(zero.error, zero.target_range_m).val, E8 \div 2) # 0
    /\ integ.bore_angle = zero.angle_guess

\* C28: a sample recorded in a pass holds the time, range, drop and windage
\* reached at the end of the pass, together with the ground speed
\* |<<vx, vy, vz>>| of the velocity the pass began with, the energy of that
\* speed, and the Mach number of the air-relative speed
\* |<<vx - wind_x, vy, vz - wind_z>>| of the same velocity
C28_SampleSpeedPrecedesUpdate ==
    [][LET Recorded(s, v_total, v_rel) ==
               /\ v_total >= 0
               /\ v_rel >= 0
               /\ s.time_s = integ'.t * TickE8
               /\ s.range_m = integ'.x
               /\ s.drop_m = integ'.y
               /\ s.windage_m = integ'.z
               /\ s.velocity_mps = v_total
               /\ s.energy_j = energy_j(conditions.projectile, v_total)
               /\ s.mach = mach_number(conditions.atmosphere, v_rel).val
       IN  (/\ pc = "integrate"
            /\ pc' = "integrate"
            /\ Len(trajectory') = Len(trajectory) + 1) =>
               Recorded(trajectory'[Len(trajectory')],
                        Hypot(integ.vx, integ.vy, integ.vz),
                        Hypot(integ.vx - integ.wind_x, integ.vy, integ.vz - integ.wind_z))]_vars

\* a sample has been recorded in a wind: its speed is not the speed after
\* the update and its Mach number is not that of its ground speed
C28_Witness ==
    /\ pc = "integrate"
    /\ integ.caller = "solve"
    /\ integ.wind_x # 0
    /\ Len(trajectory) >= 2
    /\ integ.last_x = integ.x
    /\ trajectory[Len(trajectory)].time_s = integ.t * TickE8
    /\ trajectory[Len(trajectory)].velocity_mps > Hypot(integ.vx, integ.vy, integ.vz)
    /\ trajectory[Len(trajectory)].mach
          # mach_number(conditions.atmosphere, trajectory[Len(trajectory)].velocity_mps).val

\* C29: no sample lies at the muzzle: every sample of an integration and of
\* a returned Solution has a range of at least the sampling step (and above
\* 0), so at_range(r) returns None for every r with 0 <= r < step, r = 0
\* included
C29_NoSampleAtMuzzle ==
    LET Beyond(traj, step_m) ==
            \A i \in 1..Len(traj) : traj[i].range_m > 0 /\ traj[i].range_m >= step_m
    IN  /\ pc = "integrate" => Beyond(trajectory, integ.step_m)
        /\ pc = "done" =>
              /\ Beyond(solution[1].trajectory, args.step_m)
              /\ (query.op = "at_range" /\ 0 <= query.r /\ query.r < args.step_m)
                    => (query.kind = "None" /\ query.err = "")

\* a Solution with samples has been asked for the muzzle, range 0, and has
\* returned None
C29_Witness ==
    /\ pc = "done"
    /\ Len(solution[1].trajectory) >= 2
    /\ query.op = "at_range"
    /\ query.r = 0
    /\ query.kind = "None"

\* C30 (as stated): the stored accounts have one key per user name compared
\* without case; an account that a create_user call has reported as created
\* is read back from the written file with the hash and salt that call gave
\* it (a later create_user for the name fails and changes nothing, and no
\* call loses another user's account); and of two create_user calls for the
\* same name at most one reports success, also when their load, check and
\* save steps interleave.
C30_OneAccountPerNameKept ==
    LET Created(p) ==
            calls[p].op = "create_user" /\ calls[p].pc = "idle" /\ calls[p].ok
        Kept(users, p) ==
            /\ lower(calls[p].username) \in DOMAIN users
            /\ <<users[lower(calls[p].username)]>> = calls[p].stored
    IN  /\ \A k \in DOMAIN users_file.users : lower(k) = k
        /\ \A p \in DOMAIN calls :
              (Created(p) /\ users_file.state = "written") => Kept(load_users, p)
        /\ \A p, q \in DOMAIN calls :
              (p # q /\ Created(p) /\ Created(q))
                  => lower(calls[p].username) # lower(calls[q].username)

=============================================================================
